---- MODULE Spec2Model ----
(***************************************************************************)
(* Model of the resilience layer of provider-namecheap's API client:       *)
(* the token-bucket RateLimiter, the CircuitBreaker, the WithRetry loop    *)
(* and the makeRequest / parseResponse pipeline every domain operation     *)
(* is built on.  Each caller (goroutine) runs one domain operation at a    *)
(* time; the steps of a caller are split where the code releases a lock    *)
(* or suspends (limiter wait, HTTP exchange, backoff sleep).  The rate      *)
(* limiter, the client's logging and the DNS host-record operations are    *)
(* also modelled on their own, each under its own specification.          *)
(***************************************************************************)
EXTENDS Integers, Sequences, FiniteSets, TLC

\* ----- bounds of the model -----
MaxTime == 3
MaxFailuresBound == 2
MaxRetriesBound == 2
ResetTimeoutTicks == 1
BurstBound == 1
\* the RateLimiter on its own: largest BurstSize and RequestsPerSecond (in
\* tokens per tick) a configuration gives, and the ticks a deadline lies ahead
LimBurstBound == 2
RateBound == 2
DeadlineTicks == 1
\* the logging of the client on its own: exchanges logged, logger verbosities
LogBound == 2
VerbosityBound == 2
\* the DNS operations on their own: host records of a domain
DnsBound == 2
\* the webhook server on its own: requests it is sent
HookBound == 2
\* CreateDomain and RenewDomain on their own: years asked for
YearsBound == 2
\* WithRetry on its own: the ticks of the 30 seconds an attempt is given
AttemptTicks == 2
\* calculateDelay on its own: BaseDelay and MaxDelay are 0..DelayBound
\* nanoseconds, JitterFactor is 0..JitterBound parts of JitterScale, and the
\* draw rand.Float64()*2 - 1 is one of -JitterScale..JitterScale-1 parts of
\* JitterScale
DelayBound == 2
\* the reconcilers on their own: clients made by Connect
ConnectBound == 3
JitterScale == 2
JitterBound == 3

\* the goroutines of the model
Threads == {1, 2}

\* ----- program constants -----
CircuitClosed == 0
CircuitOpen == 1
CircuitHalfOpen == 2
\* time.Time{} (the zero time) lies far before any clock reading
ZeroTime == -1000
StatusOK == 200
StatusTooManyRequests == 429

\* HTTP statuses a server may answer with; 501 stands for the 5xx codes
\* that isRetryableError does not list, 404 for a non-200 code below 500.
Statuses == {200, 404, 429, 500, 501}
\* Namecheap error numbers a response may carry: 2030166 "Domain not found"
\* (fatal) and 2030280 (rate limiting, one of the numbers isRetryableError lists).
ErrorNumbers == {2030166, 2030280}
TransientNumbers == {2030280, 2030281, 2011170}

VARIABLES
  now,        \* wall clock, in ticks
  config,     \* [maxFailures, resetTimeout, MaxRetries, burst]: set by NewClient
  cb,         \* CircuitBreaker fields [state, failures, lastFailTime]
  tokens,     \* tokens in the RateLimiter's bucket
  callers,    \* the goroutines that call the client
  server,     \* the outcomes the remote end and the network produce
  pc,         \* position of each caller
  ctxDone,    \* the caller's context has been cancelled
  snap,       \* Execute's locals state, failures, lastFailTime
  attempt,    \* WithRetry's loop variable
  lastErr,    \* WithRetry's lastErr variable
  resp,       \* makeRequest's resp variable
  result,     \* what the domain operation returned
  httpCalls,  \* history: invocations of doHTTPRequest by the current command
  sleeps,     \* history: backoff sleeps started by the current command
  tokensTaken,\* history: tokens the current command took from the limiter
  invoked,    \* history: times Execute invoked its wrapped function
  fresh,      \* history: breaker was Open and within resetTimeout at the call's last look
  promoted,   \* history: the current call moved the breaker from Open to HalfOpen
  only429,    \* history: every HTTP attempt so far was answered 429
  lastOut,    \* history: what the network produced for the latest attempt
  reports,    \* history: outcomes the current command reported to the breaker
  streak      \* history: failing calls since the breaker was last Closed with 0 failures

\* The RateLimiter on its own, with callers of Wait, Allow and UpdateLimit.
VARIABLES
  lim,        \* the rate.Limiter: [limit, burst, tokens, last, lastEvent]
  lpc,        \* position of each caller of the limiter
  lctx,       \* the context a caller passed to Wait: [cancelled, deadline]
  lr,         \* the Reservation a caller of Wait holds: [timeToAct, limit]
  lret,       \* what the caller's last call returned
  upd,        \* an UpdateLimit between its two steps, and the burst it is about to set
  admits,     \* history: requests admitted at the latest clock readings, newest first
  metered     \* history: admissions are being counted

limiterVars == <<lim, lpc, lctx, lr, lret, upd, admits, metered>>

\* What two clients that differ in their API key alone write to their logs.
VARIABLES
  apiKey,     \* Client.apiKey of each of the two clients
  logger,     \* Client.logger of both: [sink, verbosity]
  logs,       \* the records each client's logger has emitted
  exchanged   \* exchanges made so far

logVars == <<apiKey, logger, logs, exchanged>>

\* The DNS host records of one domain and the one writer that manages them.
VARIABLES
  remote,     \* the host records the provider holds, in its order
  dpc,        \* position of the writer
  dop,        \* the operation under way: [kind, record]
  dread,      \* the records GetDNSRecords returned to it
  dsent,      \* the records of the setHosts requests it has made
  dgets,      \* history: getHosts requests of the operation
  dres        \* what the operation returned

dnsVars == <<remote, dpc, dop, dread, dsent, dgets, dres>>

\* Two writers of the DNS host records of one domain (the provider's records
\* are remote, above).
VARIABLES
  wpc,        \* position of each writer
  wop,        \* the operation of each writer: [kind, record]
  wread,      \* the records GetDNSRecords returned to each writer
  wres,       \* what the operation of each writer returned
  wlast       \* history: the writer whose setHosts request the provider served last

writerVars == <<wpc, wop, wread, wres, wlast>>

\* The webhook server, its manager and the handlers of its requests.
VARIABLES
  hsecret,     \* Server.secret
  sprocessors, \* Server.processors: the processor of each event type, "none" for none
  mprocessors, \* WebhookManager.processors: the processors added for each event type
  metrics,     \* Server.metrics: the four counters
  handlers,    \* the goroutines that serve webhook requests
  arrivals,    \* the request bodies that arrive
  hpc,         \* position of each handler
  hreq,        \* the request a handler serves: [body, signature, readable]
  hstatus,     \* the status code written to its response, 0 before
  hran,        \* history: the processors invoked for the request
  hcount       \* history: the outcome counter the request has incremented

hookVars == <<hsecret, sprocessors, mprocessors, metrics, handlers, arrivals, hpc, hreq,
              hstatus, hran, hcount>>

\* One caller of CreateDomain and RenewDomain.
VARIABLES
  opc,        \* position of the caller
  oop,        \* the operation under way: [kind, domainName, years]
  ocalls,     \* history: the commands handed to makeRequest, in order
  omut,       \* history: what the mutating command came back with
  ores        \* what the operation returned: [domain, err]

domainVars == <<opc, oop, ocalls, omut, ores>>

\* The two mutexes, and makeRequest, Reset and UpdateLimit step by step from
\* one lock operation to the next.  The breaker is cb, its snapshot snap, the
\* bucket tokens, as above.
VARIABLES
  cbmu,       \* CircuitBreaker.mu: [readers, writer], writer 0 when unlocked
  rlmu,       \* RateLimiter.mu: [readers, writer]
  kpc,        \* position of each goroutine
  kerr        \* fn's err: the wrapped function failed

lockVars == <<cbmu, rlmu, kpc, kerr>>

\* One call of WithRetry whose exchanges take time.
VARIABLES
  rpc,        \* position of the caller
  rctx,       \* the caller's context: [cancelled, deadline]
  rattempt,   \* the loop variable attempt
  rstart,     \* the time the attempt under way began
  rdeadline,  \* the deadline of attemptCtx
  rlast,      \* the variable lastErr
  rres,       \* what WithRetry returned
  rexpired,   \* history: attempts so far that ended at their own deadline
  rlive,      \* attemptCtx has been made and its cancel has not been called
  rbody       \* the body of the response handed to the domain operation

retryVars == <<rpc, rctx, rattempt, rstart, rdeadline, rlast, rres, rexpired, rlive, rbody>>

\* Calls of calculateDelay.
VARIABLES
  cdpc,      \* "idle", or "returned" when cddelay holds the value of a call
  cdconfig,  \* the RetryConfig of the call
  cdattempt, \* the attempt index of the call
  cddraw,    \* the draw of the call, in parts of JitterScale
  cddelay    \* the time.Duration returned

delayVars == <<cdpc, cdconfig, cdattempt, cddraw, cddelay>>

\* Reconciliations of the managed resources of some ProviderConfigs.
VARIABLES
  instances,  \* the Clients made so far: [config, cb, tokens]
  recon,      \* each reconciler goroutine: [pc, config, client]
  seen        \* history, by ProviderConfig: [failures, taken] of its commands

connectVars == <<instances, recon, seen>>

\* Calls of DNSRecordExists.
VARIABLES
  probe       \* [pc, name, type, fetch, exists, err]

probeVars == <<probe>>

\* The reconciliation of one DNSRecord resource.
VARIABLES
  mr          \* [pc, forProvider, hosts, obs, last]

reconcileVars == <<mr>>

\* the variables of the further components that are modelled on their own
later == <<writerVars, hookVars, domainVars, lockVars, retryVars, delayVars, connectVars, probeVars, reconcileVars>>

\* what the actions of one of these components leave alone
besideWriters == <<hookVars, domainVars, lockVars, retryVars, delayVars, connectVars, probeVars, reconcileVars>>
besideHooks == <<writerVars, domainVars, lockVars, retryVars, delayVars, connectVars, probeVars, reconcileVars>>
besideDomains == <<writerVars, hookVars, lockVars, retryVars, delayVars, connectVars, probeVars, reconcileVars>>
besideLocks == <<writerVars, hookVars, domainVars, retryVars, delayVars, connectVars, probeVars, reconcileVars>>
besideRetries == <<writerVars, hookVars, domainVars, lockVars, delayVars, connectVars, probeVars, reconcileVars>>
besideDelays == <<writerVars, hookVars, domainVars, lockVars, retryVars, connectVars, probeVars, reconcileVars>>
besideConnects == <<writerVars, hookVars, domainVars, lockVars, retryVars, delayVars, probeVars, reconcileVars>>
besideProbes == <<writerVars, hookVars, domainVars, lockVars, retryVars, delayVars, connectVars, reconcileVars>>
besideReconciles == <<writerVars, hookVars, domainVars, lockVars, retryVars, delayVars, connectVars, probeVars>>

\* the variables of the components that are modelled on their own
ext == <<limiterVars, logVars, dnsVars, later>>

\* the variables of the request pipeline, the clock aside
pipeline == <<config, cb, tokens, callers, server, pc, ctxDone, snap, attempt, lastErr,
              resp, result, httpCalls, sleeps, tokensTaken, invoked, fresh, promoted,
              only429, lastOut, reports, streak>>

vars == <<now, pipeline, ext>>

hist == <<httpCalls, sleeps, tokensTaken, invoked, fresh, promoted, only429, lastOut,
          reports, streak>>

\* the variables of the request pipeline that the lock steps do not use
unlocked == <<config, callers, server, pc, ctxDone, attempt, lastErr, resp, result, hist>>

Min(a, b) == IF a < b THEN a ELSE b

\* ----- errors and responses as values -----
Nil == [kind |-> "nil", wrap |-> "none", code |-> 0, n |-> 0]
MkErr(kind, code) == [kind |-> kind, wrap |-> "none", code |-> code, n |-> 0]
Wrapf(e, how, n) == [e EXCEPT !.wrap = how, !.n = n]
NoResp == [status |-> 0, body |-> "none", code |-> 0]

\* What httpClient.Do can produce for one exchange.
NetOutcomes ==
  {[net |-> "timeout", status |-> 0, body |-> "none", code |-> 0],
   [net |-> "refused", status |-> 0, body |-> "none", code |-> 0]}
HttpOutcomes ==
  {[net |-> "ok", status |-> 200, body |-> "ok", code |-> 0],
   [net |-> "ok", status |-> 200, body |-> "malformed", code |-> 0]}
  \cup {[net |-> "ok", status |-> 200, body |-> "error", code |-> c] : c \in ErrorNumbers}
  \cup {[net |-> "ok", status |-> s, body |-> "none", code |-> 0] : s \in Statuses \ {200}}
\* the exchange ended by the deadline of its context: a *url.Error whose
\* Timeout() is true
DeadlineOutcome == [net |-> "timeout", status |-> 0, body |-> "none", code |-> 0]
CanceledOutcome == [net |-> "canceled", status |-> 0, body |-> "none", code |-> 0]
\* no exchange yet
NoOut == [net |-> "none", status |-> 0, body |-> "none", code |-> 0]
\* A server that is up or throttling behind a network that may refuse the
\* connection: a success, a retryable failure and a failure that is not retried.
PlainOutcomes ==
  {o \in NetOutcomes \cup HttpOutcomes :
     \/ o.net = "refused"
     \/ o.net = "ok" /\ o.status = StatusTooManyRequests
     \/ o.net = "ok" /\ o.status = StatusOK /\ o.body = "ok"}

\* ----- pure functions of the client -----

\* isRetryableError: the first matching errors.As branch decides.
isRetryableError(e) ==
  IF e.kind \in {"url_timeout", "url_refused", "url_canceled", "ctx_deadline"}
  THEN e.kind \in {"url_timeout", "ctx_deadline"}          \* net.Error: Timeout()
  ELSE IF e.kind = "ctx_canceled" THEN TRUE
  ELSE IF e.kind = "http" THEN e.code \in {429, 500, 502, 503, 504}
  ELSE IF e.kind = "nc" THEN e.code \in TransientNumbers
  ELSE FALSE

\* doHTTPRequest: the classification of one exchange into (resp, err).
doHTTPRequest(out) ==
  IF out.net # "ok"
  THEN [resp |-> NoResp, err |-> MkErr("url_" \o out.net, 0)]
  ELSE IF out.status >= 500
  THEN [resp |-> NoResp, err |-> MkErr("http", out.status)]
  ELSE IF out.status = StatusTooManyRequests
  THEN [resp |-> NoResp, err |-> MkErr("http", out.status)]
  ELSE [resp |-> [status |-> out.status, body |-> out.body, code |-> out.code],
        err |-> Nil]

\* parseResponse: the error a domain operation gets from a response.
parseResponse(r) ==
  IF r.status # StatusOK THEN MkErr("status", r.status)
  ELSE IF r.body = "malformed" THEN MkErr("xml", 0)
  ELSE IF r.body = "error" THEN MkErr("nc", r.code)
  ELSE Nil

\* RetryDecision with the success test misplaced: every attempt is followed by
\* a retry while attempts remain.
RetryDecision_retryAll(e, a, maxRetries) ==
  IF a < maxRetries THEN "sleep"
  ELSE IF e = Nil THEN "success"
  ELSE IF ~isRetryableError(e) THEN "nonretryable"
  ELSE "exhausted"

\* WithRetry: what the loop body does with the error of attempt number a.
RetryDecision(e, a, maxRetries) ==
  IF e = Nil THEN "success"
  ELSE IF ~isRetryableError(e) THEN "nonretryable"
  ELSE IF a < maxRetries THEN "sleep"
  ELSE "exhausted"

\* WithRetryError that hands lastErr back as it is when the attempts are used up.
WithRetryError_bare(d, e, last, maxRetries) ==
  CASE d = "success" -> Nil
    [] d = "nonretryable" -> Wrapf(e, "non-retryable", 0)
    [] d = "exhausted" -> last

\* WithRetry, lines 448-477: the error the loop returns for the decision d on
\* the error e of the attempt, with lastErr as line 456 has set it.
WithRetryError(d, e, last, maxRetries) ==
  CASE d = "success" -> Nil
    [] d = "nonretryable" -> Wrapf(e, "non-retryable", 0)
    [] d = "exhausted" -> Wrapf(last, "failed after retries", maxRetries)

\* TimeoutElapsed with >= for >.
TimeoutElapsed_inclusive(lastFailTime, t, resetTimeout) == t - lastFailTime >= resetTimeout

\* Execute, lines 551 and 553: the Open breaker may go to HalfOpen.
TimeoutElapsed(lastFailTime, t, resetTimeout) == t - lastFailTime > resetTimeout

\* RecordResult with > for >= in the threshold test.
RecordResult_offByOne(c, failed, t, maxFailures) ==
  IF failed
  THEN [state |-> IF c.failures + 1 > maxFailures THEN CircuitOpen
                  ELSE IF c.state = CircuitHalfOpen THEN CircuitOpen
                  ELSE c.state,
        failures |-> c.failures + 1,
        lastFailTime |-> t]
  ELSE IF c.state = CircuitHalfOpen \/ c.failures > 0
  THEN [c EXCEPT !.state = CircuitClosed, !.failures = 0]
  ELSE c

\* RecordResult that does not restamp lastFailTime when a probe fails.
RecordResult_noStamp(c, failed, t, maxFailures) ==
  IF failed
  THEN [state |-> IF c.failures + 1 >= maxFailures THEN CircuitOpen
                  ELSE IF c.state = CircuitHalfOpen THEN CircuitOpen
                  ELSE c.state,
        failures |-> c.failures + 1,
        lastFailTime |-> IF c.state = CircuitHalfOpen THEN c.lastFailTime ELSE t]
  ELSE IF c.state = CircuitHalfOpen \/ c.failures > 0
  THEN [c EXCEPT !.state = CircuitClosed, !.failures = 0]
  ELSE c

\* RecordResult that resets the counter only after a probe.
RecordResult_noReset(c, failed, t, maxFailures) ==
  IF failed
  THEN [state |-> IF c.failures + 1 >= maxFailures THEN CircuitOpen
                  ELSE IF c.state = CircuitHalfOpen THEN CircuitOpen
                  ELSE c.state,
        failures |-> c.failures + 1,
        lastFailTime |-> t]
  ELSE IF c.state = CircuitHalfOpen
  THEN [c EXCEPT !.state = CircuitClosed, !.failures = 0]
  ELSE c

\* RecordResult whose success closes the breaker and leaves the counter.
RecordResult_keepsCount(c, failed, t, maxFailures) ==
  IF failed
  THEN [state |-> IF c.failures + 1 >= maxFailures THEN CircuitOpen
                  ELSE IF c.state = CircuitHalfOpen THEN CircuitOpen
                  ELSE c.state,
        failures |-> c.failures + 1,
        lastFailTime |-> t]
  ELSE IF c.state = CircuitHalfOpen \/ c.failures > 0
  THEN [c EXCEPT !.state = CircuitClosed]
  ELSE c

\* Execute, lines 570-594: the breaker after the wrapped function returned.
RecordResult(c, failed, t, maxFailures) ==
  IF failed
  THEN [state |-> IF c.failures + 1 >= maxFailures THEN CircuitOpen
                  ELSE IF c.state = CircuitHalfOpen THEN CircuitOpen
                  ELSE c.state,
        failures |-> c.failures + 1,
        lastFailTime |-> t]
  ELSE IF c.state = CircuitHalfOpen \/ c.failures > 0
  THEN [c EXCEPT !.state = CircuitClosed, !.failures = 0]
  ELSE c

\* ----- the rate.Limiter behind RateLimiter -----
\* RateLimiter delegates to golang.org/x/time/rate: Wait is WaitN(ctx, 1),
\* Allow is AllowN(now, 1), UpdateLimit is SetLimit followed by SetBurst.
\* Time is read at whole ticks and a limit is a whole number of tokens per
\* tick; a wait that ends between two ticks is over at the later one.

\* rate.InfDuration, and the deadline of a context that has none
InfDuration == 1000

tokensFromDuration(d, limit) == d * limit
durationFromTokens(k, limit) == (k + limit - 1) \div limit

\* advance without the cap at burst.
advance_noCap(l, t) ==
  LET last == Min(l.last, t)
  IN l.tokens + tokensFromDuration(t - last, l.limit)

\* Limiter.advance: the tokens at time t, never more than burst.
advance(l, t) ==
  LET last == Min(l.last, t)
      tk == l.tokens + tokensFromDuration(t - last, l.limit)
  IN IF tk > l.burst THEN l.burst ELSE tk

\* Limiter.reserveN for a finite, positive limit: the reservation and the
\* limiter after it.  A reservation that has to wait takes tokens below zero.
reserveN(l, t, n, maxFutureReserve) ==
  LET tk == advance(l, t) - n
      waitDuration == IF tk < 0 THEN durationFromTokens(-tk, l.limit) ELSE 0
      ok == n <= l.burst /\ waitDuration <= maxFutureReserve
  IN [ok |-> ok,
      timeToAct |-> t + waitDuration,
      limit |-> l.limit,
      lim |-> IF ok THEN [l EXCEPT !.last = t, !.tokens = tk,
                                   !.lastEvent = t + waitDuration]
                    ELSE l]

\* Reservation.CancelAt for a reservation of one token: the tokens not yet
\* promised to later reservations go back to the bucket.
CancelAt(l, r, t) ==
  LET restoreTokens == 1 - tokensFromDuration(l.lastEvent - r.timeToAct, r.limit)
      tk == Min(advance(l, t) + restoreTokens, l.burst)
      prevEvent == r.timeToAct + durationFromTokens(-1, r.limit)
  IN IF r.timeToAct < t \/ restoreTokens <= 0 THEN l
     ELSE [l EXCEPT !.last = t, !.tokens = tk,
                    !.lastEvent = IF r.timeToAct = l.lastEvent /\ prevEvent >= t
                                  THEN prevEvent ELSE @]

\* Limiter.SetLimitAt and Limiter.SetBurstAt.
SetLimitAt(l, t, newLimit) ==
  [l EXCEPT !.last = t, !.tokens = advance(l, t), !.limit = newLimit]

SetBurstAt(l, t, newBurst) ==
  [l EXCEPT !.last = t, !.tokens = advance(l, t), !.burst = newBurst]

\* rate.NewLimiter: a full bucket.
NewLimiter(limit, burst) ==
  [limit |-> limit, burst |-> burst, tokens |-> burst, last |-> 0, lastEvent |-> 0]

NoCtx == [cancelled |-> FALSE, deadline |-> InfDuration]
NoReservation == [timeToAct |-> 0, limit |-> 0]
NoUpdate == [busy |-> FALSE, burst |-> 0]

\* the limiter of a specification that leaves it alone
LimiterIdle ==
  /\ lim = NewLimiter(1, 1)
  /\ lpc = [t \in Threads |-> "idle"]
  /\ lctx = [t \in Threads |-> NoCtx]
  /\ lr = [t \in Threads |-> NoReservation]
  /\ lret = [t \in Threads |-> "none"]
  /\ upd = NoUpdate
  /\ admits = [k \in 1..LimBurstBound |-> 0]
  /\ metered = FALSE

\* ----- what the client logs -----
ApiKeys == {"key-1", "key-2", "key-3"}
Commands == {"namecheap.domains.getInfo", "namecheap.domains.dns.getHosts"}
\* url.Values.Encode writes the parameters sorted by key
QueryKeys == <<"ApiKey", "ApiUser", "ClientIp", "Command", "UserName">>

\* doHTTPRequest, lines 826-843: req.URL.String(), the base URL followed by the
\* encoded query.
RequestURL(key, command) ==
  LET values == [k \in {QueryKeys[i] : i \in DOMAIN QueryKeys} |->
                   CASE k = "ApiKey" -> key
                     [] k = "ApiUser" -> "user"
                     [] k = "ClientIp" -> "192.0.2.1"
                     [] k = "Command" -> command
                     [] k = "UserName" -> "user"]
  IN <<<<"baseURL", "https://api.namecheap.com/xml.response">>>>
       \o [i \in DOMAIN QueryKeys |-> <<QueryKeys[i], values[QueryKeys[i]]>>]

\* err.Error() of what doHTTPRequest returns: the *url.Error of http.Client.Do
\* prints the method and the URL of the request, an HTTPError its status.
ErrorText(e, url) ==
  IF e.kind = "http" THEN [text |-> "HTTP", code |-> e.code, url |-> <<>>]
  ELSE [text |-> "failed to execute request: Get", code |-> 0, url |-> url]

\* the records one attempt of command adds to the log of a client with
\* this key: V(1) "Making API request" and, for an error that is retried,
\* "Retrying API operation"
AttemptRecords(key, l, command, out) ==
  LET url == RequestURL(key, command)
      e == doHTTPRequest(out).err
  IN (IF l.sink /\ l.verbosity >= 1
      THEN <<[msg |-> "Making API request", command |-> command, url |-> url,
              error |-> "none", code |-> 0]>>
      ELSE <<>>)
     \o (IF l.sink /\ e # Nil /\ isRetryableError(e)
         THEN <<[msg |-> "Retrying API operation", command |-> command,
                 url |-> ErrorText(e, url).url,
                 error |-> ErrorText(e, url).text, code |-> ErrorText(e, url).code]>>
         ELSE <<>>)

\* the logging of a specification that leaves it alone
LogIdle ==
  /\ apiKey = [c \in Threads |-> "key-1"]
  /\ logger = [sink |-> FALSE, verbosity |-> 0]
  /\ logs = [c \in Threads |-> <<>>]
  /\ exchanged = 0

\* ----- the DNS host records -----
HostNames == {"@", "www"}
RecordTypes == {"A", "MX"}
Addresses == {"192.0.2.1", "192.0.2.2"}
\* what the provider gives a record that is sent without TTL or MXPref
DefaultTTL == 1800
DefaultMXPref == 10

\* a DNSRecord
Host(id, name, type, address, ttl, mxpref) ==
  [HostID |-> id, Name |-> name, Type |-> type, Address |-> address,
   TTL |-> ttl, MXPref |-> mxpref]

\* setDNSRecords, lines 168-181: the parameters of record number i.  TTL and
\* MXPref are sent when they are positive, MXPref for MX records only.
HostParams(rec) ==
  [HostName |-> rec.Name, RecordType |-> rec.Type, Address |-> rec.Address,
   TTL |-> IF rec.TTL > 0 THEN rec.TTL ELSE 0,
   MXPref |-> IF rec.Type = "MX" /\ rec.MXPref > 0 THEN rec.MXPref ELSE 0]

\* domains.dns.setHosts at the provider: the records it holds after a request
\* with these parameters, numbered anew in the order sent.
StoreHosts(params) ==
  [i \in DOMAIN params |->
     Host(i, params[i].HostName, params[i].RecordType, params[i].Address,
          IF params[i].TTL > 0 THEN params[i].TTL ELSE DefaultTTL,
          IF params[i].RecordType # "MX" THEN 0
          ELSE IF params[i].MXPref > 0 THEN params[i].MXPref ELSE DefaultMXPref)]

\* UpdateDNSRecord, line 114: the record the loop stops at.
UpdateMatches(existing, rec) ==
  existing.HostID = rec.HostID \/ (existing.Name = rec.Name /\ existing.Type = rec.Type)

\* DeleteMatches that compares the names only.
DeleteMatches_nameOnly(existing, rec) == existing.Name = rec.Name

\* DeleteDNSRecord, line 141.
DeleteMatches(existing, rec) == existing.Name = rec.Name /\ existing.Type = rec.Type

\* UpdateDNSRecord without the break: every match is overwritten.
UpdateRecords_noBreak(existing, rec) ==
  [i \in DOMAIN existing |-> IF UpdateMatches(existing[i], rec) THEN rec ELSE existing[i]]

\* UpdateDNSRecord, lines 113-120: the first match is overwritten.
UpdateRecords(existing, rec) ==
  LET hits == {i \in DOMAIN existing : UpdateMatches(existing[i], rec)}
  IN [i \in DOMAIN existing |->
        IF i \in hits /\ (\A j \in hits : i <= j) THEN rec ELSE existing[i]]

\* DeleteDNSRecord, lines 138-146: the records that are kept.
RECURSIVE DeleteRecords(_, _)
DeleteRecords(existing, rec) ==
  IF existing = <<>> THEN <<>>
  ELSE IF DeleteMatches(Head(existing), rec) THEN DeleteRecords(Tail(existing), rec)
  ELSE <<Head(existing)>> \o DeleteRecords(Tail(existing), rec)

NoHost == Host(0, "", "", "", 0, 0)
NoOp == [kind |-> "none", record |-> NoHost]

\* the DNS records of a specification that leaves them alone
DnsIdle ==
  /\ remote = <<>>
  /\ dpc = "idle"
  /\ dop = NoOp
  /\ dread = <<>>
  /\ dsent = <<>>
  /\ dgets = 0
  /\ dres = "none"

\* ----- two writers of one domain's host records -----
\* the list an operation sends for the list it read (dns.go lines 98,
\* 113-120, 138-146), and whether it found a record to change (lines 122, 148)
NewHosts(kind, existing, rec) ==
  CASE kind = "create" -> Append(existing, rec)
    [] kind = "update" -> UpdateRecords(existing, rec)
    [] kind = "delete" -> DeleteRecords(existing, rec)

FoundHost(kind, existing, rec) ==
  CASE kind = "create" -> TRUE
    [] kind = "update" -> \E i \in DOMAIN existing : UpdateMatches(existing[i], rec)
    [] kind = "delete" -> \E i \in DOMAIN existing : DeleteMatches(existing[i], rec)

\* setDNSRecords, lines 168-181: the parameters of a whole list
ListParams(recs) == [i \in DOMAIN recs |-> HostParams(recs[i])]

\* the writers of a specification that leaves them alone
WritersIdle ==
  /\ wpc = [w \in Threads |-> "idle"]
  /\ wop = [w \in Threads |-> NoOp]
  /\ wread = [w \in Threads |-> <<>>]
  /\ wres = [w \in Threads |-> "none"]
  /\ wlast = 0

\* ----- the webhook server -----
DomainEvents == {"domain.registered", "domain.renewed", "domain.expired", "domain.transferred"}
DnsEvents == {"dns.record.created", "dns.record.updated", "dns.record.deleted"}
SslEvents == {"ssl.issued", "ssl.renewed", "ssl.expired", "ssl.revoked"}
AccountEvents == {"account.updated", "payment.received", "payment.failed"}
\* the EventType constants
EventTypes == DomainEvents \cup DnsEvents \cup SslEvents \cup AccountEvents

\* A request body: JSON of a WebhookEvent or not, the event's type, and
\* whether its data holds a string "domain" and an object "record".
Body(json, type, domain, record) ==
  [json |-> json, type |-> type, domain |-> domain, record |-> record]
InvalidJSON == Body(FALSE, "", FALSE, FALSE)
Bodies ==
  {InvalidJSON}
    \cup {Body(TRUE, ty, d, r) : ty \in EventTypes \cup {"unknown.event"},
                                d \in BOOLEAN, r \in BOOLEAN}
\* hex.EncodeToString of the HMAC-SHA256 of body under key: one digest for
\* each key and body, and no two alike.
HmacHex(key, body) == [key |-> key, body |-> body]
\* the empty string and a string that is no digest
NoDigest == [key |-> "", body |-> InvalidJSON]
Garbage == [key |-> "invalid-signature", body |-> InvalidJSON]
\* the keys a sender signs with: the secret of the server and another
SignKeys == {"test-secret-key", "guess"}

\* The X-Namecheap-Signature header: "sha256=" a number of times, then a
\* digest or another string.  A header that is missing reads as "".
Signature(prefixes, hex) == [prefixes |-> prefixes, hex |-> hex]
NoSignature == Signature(0, NoDigest)
\* strings.TrimPrefix(signature, "sha256=")
TrimPrefix(sig) == IF sig.prefixes > 0 THEN [sig EXCEPT !.prefixes = @ - 1] ELSE sig

\* verifySignature that lets a missing header pass.
verifySignature_acceptsMissing(secret, body, sig) ==
  IF secret = "" THEN TRUE
  ELSE IF sig = NoSignature THEN TRUE
  ELSE TrimPrefix(sig) = Signature(0, HmacHex(secret, body))

\* Server.verifySignature, lines 239-258.
verifySignature(secret, body, sig) ==
  IF secret = "" THEN TRUE
  ELSE IF sig = NoSignature THEN FALSE
  ELSE TrimPrefix(sig) = Signature(0, HmacHex(secret, body))

\* Process of the five processors: "nil" or the error.
Process(processor, event) ==
  CASE processor = "domain" ->
         IF ~event.domain THEN "missing or invalid domain field in event data"
         ELSE IF event.type \in DomainEvents THEN "nil"
         ELSE "unsupported event type"
    [] processor = "dns" ->
         IF ~event.record THEN "missing or invalid record field in event data"
         ELSE IF event.type \in DnsEvents THEN "nil"
         ELSE "unsupported event type"
    [] processor = "ssl" ->
         IF event.type \in SslEvents THEN "nil" ELSE "unsupported event type"
    [] processor = "account" ->
         IF event.type \in AccountEvents THEN "nil" ELSE "unsupported event type"
    [] processor = "logging" -> "nil"

\* RegisterDefaultProcessors, lines 75-98: the processor registered with the
\* server for each event type.
DefaultProcessor(type) ==
  CASE type \in DomainEvents -> "domain"
    [] type \in DnsEvents -> "dns"
    [] type \in SslEvents -> "ssl"
    [] type \in AccountEvents -> "account"

NoRequest == [body |-> InvalidJSON, signature |-> NoSignature, readable |-> FALSE]
NoMetrics == [requestsTotal |-> 0, requestsErrors |-> 0, processingErrors |-> 0,
              eventsProcessed |-> 0]

\* NewServer, lines 115-122, and NewWebhookManager, lines 65-69: no processor
\* yet, the metrics at zero; no request is being served.
NewHooks ==
  /\ sprocessors = [ty \in EventTypes |-> "none"]
  /\ mprocessors = [ty \in EventTypes |-> <<>>]
  /\ metrics = NoMetrics
  /\ hpc = [h \in Threads |-> "idle"]
  /\ hreq = [h \in Threads |-> NoRequest]
  /\ hstatus = [h \in Threads |-> 0]
  /\ hran = [h \in Threads |-> <<>>]
  /\ hcount = [h \in Threads |-> "none"]

\* the webhook server of a specification that leaves it alone
HooksIdle == NewHooks /\ hsecret = "" /\ handlers = {} /\ arrivals = {}

\* ----- CreateDomain and RenewDomain -----
DomainNames == {"example.com", "example.org"}
NoDomainOp == [kind |-> "none", domainName |-> "", years |-> 0]
\* no command has come back
NoAnswer == [resp |-> NoResp, err |-> Nil, flag |-> FALSE]
\* (nil, nil), which no operation returns
NoResult == [domain |-> "nil", err |-> "nil"]

\* lines 302 and 408: the command that registers or renews
MutatingCommand(kind) ==
  IF kind = "create" THEN "namecheap.domains.create" ELSE "namecheap.domains.renew"

\* What makeRequest can come back with: a response, or no response and the
\* error of the exchange or of the open breaker.  flag is the attribute
\* Registered or Renew of a body that has one.
Answers ==
  {[resp |-> doHTTPRequest(o).resp, err |-> doHTTPRequest(o).err,
    flag |-> f /\ o.body = "ok"] : o \in NetOutcomes \cup HttpOutcomes, f \in BOOLEAN}
    \cup {[resp |-> NoResp, err |-> MkErr("circuit_open", 0), flag |-> FALSE]}

\* CreateDomain, lines 302-314, and RenewDomain, lines 408-420: the error the
\* mutating command ends the operation with, "nil" when it goes on.
MutationError_ignoresFlag(kind, a) ==
  IF a.err # Nil
  THEN "failed to make domains." \o kind \o " request"
  ELSE IF parseResponse(a.resp) # Nil
  THEN "failed to parse domains." \o kind \o " response"
  ELSE "nil"

MutationError(kind, a) ==
  IF a.err # Nil
  THEN "failed to make domains." \o kind \o " request"
  ELSE IF parseResponse(a.resp) # Nil
  THEN "failed to parse domains." \o kind \o " response"
  ELSE IF ~a.flag
  THEN IF kind = "create" THEN "domain registration failed" ELSE "domain renewal failed"
  ELSE "nil"

\* GetDomain, lines 277-292: what it returns for makeRequest's answer.
GetDomainResult(domainName, a) ==
  IF a.err # Nil
  THEN [domain |-> "nil", err |-> "failed to make domains.getInfo request"]
  ELSE IF parseResponse(a.resp) # Nil
  THEN [domain |-> "nil", err |-> "failed to parse domains.getInfo response"]
  ELSE [domain |-> domainName, err |-> "nil"]

\* the domain operations of a specification that leaves them alone
DomainsIdle ==
  /\ opc = "idle"
  /\ oop = NoDomainOp
  /\ ocalls = <<>>
  /\ omut = NoAnswer
  /\ ores = NoResult

\* ----- the mutexes -----
\* a sync.RWMutex that nobody holds
Unlocked == [readers |-> {}, writer |-> 0]
\* RLock and Lock return when the mutex is in this state
CanRLock(m) == m.writer = 0
CanLock(m) == m.writer = 0 /\ m.readers = {}
RLock(m, t) == [m EXCEPT !.readers = @ \cup {t}]
RUnlock(m, t) == [m EXCEPT !.readers = @ \ {t}]
Lock(m, t) == [m EXCEPT !.writer = t]
Unlock(m, t) == [m EXCEPT !.writer = 0]
Holds(m, t) == t \in m.readers \/ m.writer = t

\* the locks of a specification that leaves them alone
LocksIdle ==
  /\ cbmu = Unlocked
  /\ rlmu = Unlocked
  /\ kpc = [t \in Threads |-> "idle"]
  /\ kerr = [t \in Threads |-> FALSE]

\* ----- the deadlines of WithRetry -----
\* ctx.Done() of a context is ready at time t
CtxDone(ctx, t) == ctx.cancelled \/ t >= ctx.deadline
\* ctx.Err(): context.Canceled or context.DeadlineExceeded
CtxErr(ctx) == IF ctx.cancelled THEN MkErr("ctx_canceled", 0) ELSE MkErr("ctx_deadline", 0)

\* AttemptDeadline that does not look at the caller's deadline.
AttemptDeadline_detached(ctx, t) == t + AttemptTicks

\* WithRetry, line 444: the deadline of context.WithTimeout(ctx, 30*time.Second)
\* made at time t, the earlier of t + 30 s and the deadline of ctx.
AttemptDeadline(ctx, t) == Min(t + AttemptTicks, ctx.deadline)

\* the retry loop of a specification that leaves it alone
RetriesIdle ==
  /\ rpc = "idle"
  /\ rctx = NoCtx
  /\ rattempt = 0
  /\ rstart = 0
  /\ rdeadline = 0
  /\ rlast = Nil
  /\ rres = Nil
  /\ rexpired = 0
  /\ rlive = FALSE
  /\ rbody = "none"

\* ----- calculateDelay -----
RECURSIVE Pow(_, _)
\* math.Pow for a whole base and a whole exponent that is not negative
Pow(b, n) == IF n = 0 THEN 1 ELSE b * Pow(b, n - 1)

\* the conversion of a float64 to time.Duration: the fraction is dropped,
\* towards zero; num and den are whole, den positive
Truncate(num, den) == IF num >= 0 THEN num \div den ELSE -((-num) \div den)

\* the RetryConfig values and draws looked at
RetryConfigs ==
  [BaseDelay : 0..DelayBound, MaxDelay : 0..DelayBound,
   BackoffFactor : {1, 2}, JitterFactor : 0..JitterBound]
Draws == (-JitterScale)..(JitterScale - 1)
NoRetryConfig == [BaseDelay |-> 0, MaxDelay |-> 0, BackoffFactor |-> 1, JitterFactor |-> 0]

\* calculateDelay, lines 521-537, for the draw u of rand.Float64()*2 - 1;
\* the float64 delay is kept as a whole number of parts of a nanosecond, of
\* which there are JitterScale * JitterScale in one.
calculateDelay(c, a, u) ==
  LET unit == JitterScale * JitterScale
      backoff == c.BaseDelay * Pow(c.BackoffFactor, a) * unit
      jitter == IF c.JitterFactor > 0
                THEN c.BaseDelay * Pow(c.BackoffFactor, a) * c.JitterFactor * u
                ELSE 0
      scaled == backoff + jitter
  IN IF scaled > c.MaxDelay * unit THEN c.MaxDelay ELSE Truncate(scaled, unit)

\* no call of calculateDelay
DelaysIdle ==
  /\ cdpc = "idle"
  /\ cdconfig = NoRetryConfig
  /\ cdattempt = 0
  /\ cddraw = 0
  /\ cddelay = 0

\* ----- the reconcilers -----
ProviderConfigs == {"default", "sandbox"}
NoRecon == [pc |-> "idle", config |-> "none", client |-> 0]
NoneSeen == [failures |-> 0, taken |-> 0]

\* NewClient, lines 732-779: a Client with a RateLimiter and a CircuitBreaker
\* of its own, made for the credentials of ProviderConfig p.
NewClient(p, burst) ==
  [config |-> p,
   cb |-> [state |-> CircuitClosed, failures |-> 0, lastFailTime |-> ZeroTime],
   tokens |-> burst]

\* no reconciliation yet
ConnectsIdle ==
  /\ instances = <<>>
  /\ recon = [t \in Threads |-> NoRecon]
  /\ seen = [p \in ProviderConfigs |-> NoneSeen]

\* ----- DNSRecordExists -----
\* An error text is the sequence of its words; no error is the empty text.
NoError == <<>>
RECURSIVE Contains(_, _)
\* strings.Contains, for a phrase of whole words
Contains(text, phrase) ==
  IF Len(text) < Len(phrase) THEN FALSE
  ELSE IF SubSeq(text, 1, Len(phrase)) = phrase THEN TRUE
  ELSE Contains(Tail(text), phrase)

\* what makeRequest and parseResponse can make of a getHosts command: the
\* breaker is open, the context is cancelled, the status is 404 with a body
\* of the server's, or the envelope carries an Error of the provider
MakeRequestErrors ==
  {<<"circuit", "breaker", "is", "open">>, <<"context", "canceled">>}
ParseResponseErrors ==
  {<<"API", "request", "failed", "with", "status", "404:", "Not", "Found">>,
   <<"Namecheap", "API", "Error", "2030166:", "Domain", "not", "found">>,
   <<"Namecheap", "API", "Error", "2030280:", "Too", "many", "requests">>}

\* GetDNSRecords, lines 49-71: the hosts, or the error wrapped at line 62 or
\* at line 67
FetchErrors ==
  {<<"failed", "to", "make", "domains.dns.getHosts", "request:">> \o e : e \in MakeRequestErrors}
    \cup {<<"failed", "to", "parse", "domains.dns.getHosts", "response:">> \o e :
            e \in ParseResponseErrors}
Fetched(hosts) == [hosts |-> hosts, err |-> NoError]
FetchFailed(e) == [hosts |-> <<>>, err |-> e]

\* GetDNSRecord, lines 74-87: the first record with the name and the type, or
\* an error: that of GetDNSRecords or "DNS record not found".
GetDNSRecord(fetch, name, type) ==
  IF fetch.err # NoError THEN [record |-> NoHost, err |-> fetch.err]
  ELSE LET hits == {i \in DOMAIN fetch.hosts :
                      fetch.hosts[i].Name = name /\ fetch.hosts[i].Type = type}
       IN IF hits = {} THEN [record |-> NoHost, err |-> <<"DNS", "record", "not", "found">>]
          ELSE [record |-> fetch.hosts[CHOOSE i \in hits : \A j \in hits : i <= j],
                err |-> NoError]

\* DNSRecordExists that tells the error of GetDNSRecord by its whole text.
DNSRecordExists_exact(fetch, name, type) ==
  LET got == GetDNSRecord(fetch, name, type)
  IN IF got.err # NoError
     THEN IF got.err = <<"DNS", "record", "not", "found">>
          THEN [exists |-> FALSE, err |-> NoError]
          ELSE [exists |-> FALSE, err |-> got.err]
     ELSE [exists |-> TRUE, err |-> NoError]

\* DNSRecordExists, lines 201-210.
DNSRecordExists(fetch, name, type) ==
  LET got == GetDNSRecord(fetch, name, type)
  IN IF got.err # NoError
     THEN IF Contains(got.err, <<"not", "found">>)
          THEN [exists |-> FALSE, err |-> NoError]
          ELSE [exists |-> FALSE, err |-> got.err]
     ELSE [exists |-> TRUE, err |-> NoError]

NoProbe == [pc |-> "idle", name |-> "", type |-> "", fetch |-> Fetched(<<>>),
            exists |-> FALSE, err |-> NoError]
\* no call of DNSRecordExists
ProbesIdle == probe = NoProbe

\* ----- the DNSRecord controller -----
\* an optional int of DNSRecordParameters (*int): unset, or set to v
NilInt == [set |-> FALSE, v |-> 0]
IntPtr(v) == [set |-> TRUE, v |-> v]
\* the TTL the controller sends when the resource has none (Create, Update)
ControllerTTL == 300

\* DNSRecordParameters of one resource: Name and Domain are fixed
ManagedTypes == {"MX", "SRV"}
Priorities == {0, DefaultMXPref, 2 * DefaultMXPref}
ForProviders ==
  [Name : {"@"}, Type : ManagedTypes, Value : Addresses,
   TTL : {NilInt, IntPtr(DefaultTTL)}, Priority : {IntPtr(v) : v \in Priorities}]
NoForProvider ==
  [Name |-> "", Type |-> "", Value |-> "", TTL |-> NilInt, Priority |-> NilInt]

\* external.Observe, lines 690-737: the observation for the hosts of the
\* domain (both calls of the client succeed)
NoObservation == [ResourceExists |-> FALSE, ResourceUpToDate |-> FALSE]
Observe(hosts, fp) ==
  IF ~DNSRecordExists(Fetched(hosts), fp.Name, fp.Type).exists THEN NoObservation
  ELSE LET record == GetDNSRecord(Fetched(hosts), fp.Name, fp.Type).record
       IN [ResourceExists |-> TRUE,
           ResourceUpToDate |->
             ~ \/ record.Address # fp.Value
               \/ fp.TTL.set /\ record.TTL # fp.TTL.v
               \/ fp.Priority.set /\ record.MXPref # fp.Priority.v]

\* the DNSRecord that Create (lines 753-766) and Update (lines 795-809) build
ManagedRecord(id, fp) ==
  Host(id, fp.Name, fp.Type, fp.Value,
       IF fp.TTL.set THEN fp.TTL.v ELSE ControllerTTL,
       IF fp.Priority.set THEN fp.Priority.v ELSE 0)

NoReconcile ==
  [pc |-> "idle", forProvider |-> NoForProvider, hosts |-> <<>>,
   obs |-> NoObservation, last |-> "none"]
\* no DNSRecord resource
ReconcilesIdle == mr = NoReconcile

LaterIdle ==
  /\ WritersIdle /\ HooksIdle /\ DomainsIdle /\ LocksIdle /\ RetriesIdle
  /\ DelaysIdle /\ ConnectsIdle /\ ProbesIdle /\ ReconcilesIdle

\* the components that are modelled on their own, left alone
ExtIdle == LimiterIdle /\ LogIdle /\ DnsIdle /\ LaterIdle

\* ----- initial states -----
NoSnap == [state |-> CircuitClosed, failures |-> 0, lastFailTime |-> ZeroTime]

\* NewClient, with retries as the MaxRetries of the RetryConfig
InitClient(retries) ==
  /\ now = 0
  /\ config \in [maxFailures : 1..MaxFailuresBound,
                 resetTimeout : {ResetTimeoutTicks},
                 MaxRetries : {retries},
                 burst : {BurstBound}]
  /\ cb = [state |-> CircuitClosed, failures |-> 0, lastFailTime |-> ZeroTime]
  /\ tokens = config.burst
  /\ pc = [t \in Threads |-> "idle"]
  /\ ctxDone = [t \in Threads |-> FALSE]
  /\ snap = [t \in Threads |-> NoSnap]
  /\ attempt = [t \in Threads |-> 0]
  /\ lastErr = [t \in Threads |-> Nil]
  /\ lastOut = [t \in Threads |-> NoOut]
  /\ resp = [t \in Threads |-> NoResp]
  /\ result = [t \in Threads |-> Nil]
  /\ httpCalls = [t \in Threads |-> 0]
  /\ sleeps = [t \in Threads |-> 0]
  /\ tokensTaken = [t \in Threads |-> 0]
  /\ invoked = [t \in Threads |-> 0]
  /\ fresh = [t \in Threads |-> FALSE]
  /\ promoted = [t \in Threads |-> FALSE]
  /\ only429 = [t \in Threads |-> TRUE]
  /\ reports = [t \in Threads |-> <<>>]
  /\ streak = 0

InitCommon == InitClient(MaxRetriesBound)

\* goroutines share the client, which retries once less than when its calls
\* are made one at a time; the remote end answers OK or 429 or the connection
\* is refused
Init == InitClient(MaxRetriesBound - 1) /\ callers = Threads /\ server = PlainOutcomes /\ ExtIdle

\* calls are made one at a time; the remote end answers in every way
InitSeq == InitCommon /\ callers = {1} /\ server = NetOutcomes \cup HttpOutcomes /\ ExtIdle

\* ----- actions -----
InExecute == {"check", "promote", "attempt", "sleep"}
InWrapped == {"attempt", "sleep"}

\* A caller starts a domain operation (GetDomain and the like): makeRequest
\* followed by parseResponse.
Begin(t) ==
  /\ t \in callers
  /\ pc[t] = "idle"
  /\ pc' = [pc EXCEPT ![t] = "wait"]
  /\ UNCHANGED <<now, config, cb, tokens, callers, server, ctxDone, snap, attempt, lastErr, resp,
                 result, hist>>
  /\ UNCHANGED ext

\* makeRequest with the error of Wait logged and not returned.
LimiterWait_fallThrough(t) ==
  /\ pc[t] = "wait"
  /\ IF ctxDone[t]
     THEN /\ pc' = [pc EXCEPT ![t] = "execute"]
          /\ UNCHANGED <<tokens, tokensTaken, result>>
     ELSE /\ tokens >= 1
          /\ tokens' = tokens - 1
          /\ tokensTaken' = [tokensTaken EXCEPT ![t] = @ + 1]
          /\ pc' = [pc EXCEPT ![t] = "execute"]
          /\ UNCHANGED result
  /\ UNCHANGED <<now, config, cb, callers, server, ctxDone, snap, attempt, lastErr, resp,
                 httpCalls, sleeps, invoked, fresh, promoted, only429, lastOut, reports, streak>>
  /\ UNCHANGED ext

\* LimiterWait that waits for a token whatever becomes of the context.
LimiterWait_ignoresCtx(t) ==
  /\ pc[t] = "wait"
  /\ tokens >= 1
  /\ tokens' = tokens - 1
  /\ tokensTaken' = [tokensTaken EXCEPT ![t] = @ + 1]
  /\ pc' = [pc EXCEPT ![t] = "execute"]
  /\ UNCHANGED <<now, config, cb, callers, server, ctxDone, snap, attempt, lastErr, resp, result,
                 httpCalls, sleeps, invoked, fresh, promoted, only429, lastOut, reports, streak>>
  /\ UNCHANGED ext

\* makeRequest, lines 803-806: rateLimiter.Wait(ctx).  Returns an error when
\* the context is done, takes a token when one is there, blocks otherwise.
LimiterWait(t) ==
  /\ pc[t] = "wait"
  /\ IF ctxDone[t]
     THEN /\ result' = [result EXCEPT ![t] =
                           Wrapf(MkErr("ctx_canceled", 0), "rate limit exceeded", 0)]
          /\ pc' = [pc EXCEPT ![t] = "done"]
          /\ UNCHANGED <<tokens, tokensTaken>>
     ELSE /\ tokens >= 1
          /\ tokens' = tokens - 1
          /\ tokensTaken' = [tokensTaken EXCEPT ![t] = @ + 1]
          /\ pc' = [pc EXCEPT ![t] = "execute"]
          /\ UNCHANGED result
  /\ UNCHANGED <<now, config, cb, callers, server, ctxDone, snap, attempt, lastErr, resp,
                 httpCalls, sleeps, invoked, fresh, promoted, only429, lastOut, reports, streak>>
  /\ UNCHANGED ext

\* Execute, lines 544-548: the snapshot taken under the read lock.
ExecuteSnapshot(t) ==
  /\ pc[t] = "execute"
  /\ snap' = [snap EXCEPT ![t] = cb]
  /\ fresh' = [fresh EXCEPT ![t] = cb.state = CircuitOpen
                                   /\ now - cb.lastFailTime <= config.resetTimeout]
  /\ pc' = [pc EXCEPT ![t] = "check"]
  /\ UNCHANGED <<now, config, cb, tokens, callers, server, ctxDone, attempt, lastErr, resp, result,
                 httpCalls, sleeps, tokensTaken, invoked, promoted, only429, lastOut, reports, streak>>
  /\ UNCHANGED ext

\* Finish that counts an error of parseResponse as a failure of the call.
Finish_parsed(t, e, r) ==
  LET failed == e # Nil \/ parseResponse(r) # Nil
      after == RecordResult(cb, failed, now, config.maxFailures)
  IN /\ cb' = after
     /\ reports' = [reports EXCEPT ![t] =
                      Append(@, [ok |-> ~failed, before |-> cb.state,
                                 state |-> after.state, failures |-> after.failures,
                                 stamped |-> after.lastFailTime = now])]
     /\ streak' = IF failed THEN streak + 1 ELSE 0
     /\ result' = [result EXCEPT ![t] = IF e # Nil THEN e ELSE parseResponse(r)]
     /\ pc' = [pc EXCEPT ![t] = "done"]

\* Execute, lines 570-594 under the write lock, then makeRequest's return and,
\* when it returned a response, the domain operation's parseResponse.
\* e is the error the wrapped function returned.
Finish(t, e, r) ==
  LET failed == e # Nil
      after == RecordResult(cb, failed, now, config.maxFailures)
  IN /\ cb' = after
     /\ reports' = [reports EXCEPT ![t] =
                      Append(@, [ok |-> ~failed, before |-> cb.state,
                                 state |-> after.state, failures |-> after.failures,
                                 stamped |-> after.lastFailTime = now])]
     /\ streak' = IF failed THEN streak + 1 ELSE 0
     /\ result' = [result EXCEPT ![t] = IF failed THEN e ELSE parseResponse(r)]
     /\ pc' = [pc EXCEPT ![t] = "done"]

\* The end of Execute's admission: fail fast (line 561) or call fn (line 567),
\* which enters WithRetry with attempt = 0.  Execute's locals failures and
\* lastFailTime are only read by the fail-fast message.
Admit(t, state) ==
  IF state = CircuitOpen
  THEN /\ result' = [result EXCEPT ![t] = MkErr("circuit_open", 0)]
       /\ pc' = [pc EXCEPT ![t] = "done"]
       /\ snap' = [snap EXCEPT ![t].state = state]
       /\ UNCHANGED <<attempt, invoked>>
  ELSE /\ pc' = [pc EXCEPT ![t] = "attempt"]
       /\ attempt' = [attempt EXCEPT ![t] = 0]
       /\ invoked' = [invoked EXCEPT ![t] = @ + 1]
       /\ snap' = [snap EXCEPT ![t] = [NoSnap EXCEPT !.state = state]]
       /\ UNCHANGED result

\* Execute, line 551 (and 561-567 when the breaker is not to be probed).
ExecuteCheck(t) ==
  /\ pc[t] = "check"
  /\ IF snap[t].state = CircuitOpen
        /\ TimeoutElapsed(snap[t].lastFailTime, now, config.resetTimeout)
     THEN /\ pc' = [pc EXCEPT ![t] = "promote"]
          /\ UNCHANGED <<attempt, invoked, result, snap>>
     ELSE Admit(t, snap[t].state)
  /\ UNCHANGED <<now, config, cb, tokens, callers, server, ctxDone, lastErr, resp,
                 httpCalls, sleeps, tokensTaken, fresh, promoted, only429, lastOut, reports, streak>>
  /\ UNCHANGED ext

\* Execute, lines 552-557 under the write lock, then 561-567.
ExecutePromote(t) ==
  /\ pc[t] = "promote"
  /\ LET newState == IF cb.state = CircuitOpen
                        /\ TimeoutElapsed(cb.lastFailTime, now, config.resetTimeout)
                     THEN CircuitHalfOpen ELSE cb.state
     IN /\ cb' = [cb EXCEPT !.state = newState]
        /\ fresh' = [fresh EXCEPT ![t] = cb.state = CircuitOpen
                                         /\ now - cb.lastFailTime <= config.resetTimeout]
        /\ promoted' = [promoted EXCEPT ![t] = newState # cb.state]
        /\ Admit(t, newState)
  /\ UNCHANGED <<now, config, tokens, callers, server, ctxDone, lastErr, resp,
                 httpCalls, sleeps, tokensTaken, only429, lastOut, reports, streak>>
  /\ UNCHANGED ext

\* WithRetry, lines 442-477: one attempt (doHTTPRequest under its own
\* deadline) and what the loop does with its error: sleep before the next
\* attempt, or return to Execute, which records the outcome.  lastErr is a
\* local of WithRetry: it is gone when the loop returns.
Attempt(t) ==
  /\ pc[t] = "attempt"
  /\ \E out \in (IF ctxDone[t] THEN {CanceledOutcome} ELSE server) :
       LET r == doHTTPRequest(out)
           d == RetryDecision(r.err, attempt[t], config.MaxRetries)
           last == IF r.err = Nil THEN lastErr[t] ELSE r.err
       IN /\ resp' = [resp EXCEPT ![t] = r.resp]
          /\ lastErr' = [lastErr EXCEPT ![t] = IF d = "sleep" THEN last ELSE Nil]
          /\ lastOut' = [lastOut EXCEPT ![t] = out]
          /\ httpCalls' = [httpCalls EXCEPT ![t] = @ + 1]
          /\ only429' = [only429 EXCEPT ![t] = @ /\ out.status = StatusTooManyRequests]
          /\ IF d = "sleep"
             THEN /\ pc' = [pc EXCEPT ![t] = "sleep"]
                  /\ sleeps' = [sleeps EXCEPT ![t] = @ + 1]
                  /\ UNCHANGED <<cb, reports, streak, result>>
             ELSE /\ Finish(t, WithRetryError(d, r.err, last, config.MaxRetries), r.resp)
                  /\ UNCHANGED sleeps
  /\ UNCHANGED <<now, config, tokens, callers, server, ctxDone, snap, attempt,
                 tokensTaken, invoked, fresh, promoted>>
  /\ UNCHANGED ext

\* SleepElapsed that does not look at the context.
SleepElapsed_ignoresCtx(t) ==
  /\ pc[t] = "sleep"
  /\ attempt' = [attempt EXCEPT ![t] = @ + 1]
  /\ pc' = [pc EXCEPT ![t] = "attempt"]
  /\ UNCHANGED <<now, config, cb, tokens, callers, server, ctxDone, snap, lastErr, resp,
                 result, hist>>
  /\ UNCHANGED ext

\* WithRetry, lines 468-470: the backoff delay elapses and the loop goes on.
\* The goroutine is parked in the select on time.After(delay) and ctx.Done():
\* the channel that becomes ready first wakes it and decides the case, and a
\* done context is ready before a timer set for a positive delay.
SleepElapsed(t) ==
  /\ pc[t] = "sleep"
  /\ ~ctxDone[t]
  /\ attempt' = [attempt EXCEPT ![t] = @ + 1]
  /\ pc' = [pc EXCEPT ![t] = "attempt"]
  /\ UNCHANGED <<now, config, cb, tokens, callers, server, ctxDone, snap, lastErr, resp,
                 result, hist>>
  /\ UNCHANGED ext

\* WithRetry, lines 471-472: the context ends during the backoff delay and
\* ctx.Err() goes back to Execute.
SleepCanceled(t) ==
  /\ pc[t] = "sleep"
  /\ ctxDone[t]
  /\ Finish(t, MkErr("ctx_canceled", 0), NoResp)
  /\ lastErr' = [lastErr EXCEPT ![t] = Nil]
  /\ UNCHANGED <<now, config, tokens, callers, server, ctxDone, snap, attempt, resp,
                 httpCalls, sleeps, tokensTaken, invoked, fresh, promoted, only429, lastOut>>
  /\ UNCHANGED ext

\* The domain operation has returned; the caller is free for the next one.
Return(t) ==
  /\ pc[t] = "done"
  /\ pc' = [pc EXCEPT ![t] = "idle"]
  /\ ctxDone' = [ctxDone EXCEPT ![t] = FALSE]
  /\ snap' = [snap EXCEPT ![t] = NoSnap]
  /\ attempt' = [attempt EXCEPT ![t] = 0]
  /\ lastErr' = [lastErr EXCEPT ![t] = Nil]
  /\ lastOut' = [lastOut EXCEPT ![t] = NoOut]
  /\ resp' = [resp EXCEPT ![t] = NoResp]
  /\ result' = [result EXCEPT ![t] = Nil]
  /\ httpCalls' = [httpCalls EXCEPT ![t] = 0]
  /\ sleeps' = [sleeps EXCEPT ![t] = 0]
  /\ tokensTaken' = [tokensTaken EXCEPT ![t] = 0]
  /\ invoked' = [invoked EXCEPT ![t] = 0]
  /\ fresh' = [fresh EXCEPT ![t] = FALSE]
  /\ promoted' = [promoted EXCEPT ![t] = FALSE]
  /\ only429' = [only429 EXCEPT ![t] = TRUE]
  /\ reports' = [reports EXCEPT ![t] = <<>>]
  /\ UNCHANGED <<now, config, cb, tokens, callers, server, streak>>
  /\ UNCHANGED ext

\* The caller's context is cancelled while its operation is under way.
Cancel(t) ==
  /\ pc[t] # "idle"
  /\ ~ctxDone[t]
  /\ ctxDone' = [ctxDone EXCEPT ![t] = TRUE]
  /\ UNCHANGED <<now, config, cb, tokens, callers, server, pc, snap, attempt, lastErr, resp, result, hist>>
  /\ UNCHANGED ext

\* Reset that closes the breaker and leaves the failure counter.
Reset_keepsCount ==
  /\ cb # [state |-> CircuitClosed, failures |-> 0, lastFailTime |-> ZeroTime]
  /\ cb' = [cb EXCEPT !.state = CircuitClosed, !.lastFailTime = ZeroTime]
  /\ streak' = 0
  /\ UNCHANGED <<now, config, tokens, callers, server, pc, ctxDone, snap, attempt, lastErr, resp, result,
                 httpCalls, sleeps, tokensTaken, invoked, fresh, promoted, only429, lastOut, reports>>
  /\ UNCHANGED ext

\* CircuitBreaker.Reset, lines 605-611.
Reset ==
  /\ cb # [state |-> CircuitClosed, failures |-> 0, lastFailTime |-> ZeroTime]
  /\ cb' = [state |-> CircuitClosed, failures |-> 0, lastFailTime |-> ZeroTime]
  /\ streak' = 0
  /\ UNCHANGED <<now, config, tokens, callers, server, pc, ctxDone, snap, attempt, lastErr, resp, result,
                 httpCalls, sleeps, tokensTaken, invoked, fresh, promoted, only429, lastOut, reports>>
  /\ UNCHANGED ext

\* Tick with a timer that moves the Open breaker to HalfOpen when resetTimeout
\* has elapsed.
Tick_timer ==
  /\ now < MaxTime
  /\ now' = now + 1
  /\ tokens' = Min(tokens + 1, config.burst)
  /\ cb' = IF cb.state = CircuitOpen
              /\ TimeoutElapsed(cb.lastFailTime, now + 1, config.resetTimeout)
           THEN [cb EXCEPT !.state = CircuitHalfOpen] ELSE cb
  /\ UNCHANGED <<config, callers, server, pc, ctxDone, snap, attempt, lastErr, resp, result, hist>>
  /\ UNCHANGED ext

\* Time passes; the bucket refills lazily at one token per tick up to burst.
Tick ==
  /\ now < MaxTime
  /\ now' = now + 1
  /\ tokens' = Min(tokens + 1, config.burst)
  /\ UNCHANGED <<config, cb, callers, server, pc, ctxDone, snap, attempt, lastErr, resp, result, hist>>
  /\ UNCHANGED ext

Next ==
  \/ \E t \in Threads : Begin(t)
  \/ \E t \in Threads : LimiterWait(t)
  \/ \E t \in Threads : ExecuteSnapshot(t)
  \/ \E t \in Threads : ExecuteCheck(t)
  \/ \E t \in Threads : ExecutePromote(t)
  \/ \E t \in Threads : Attempt(t)
  \/ \E t \in Threads : SleepElapsed(t)
  \/ \E t \in Threads : SleepCanceled(t)
  \/ \E t \in Threads : Return(t)
  \/ \E t \in Threads : Cancel(t)
  \/ Reset
  \/ Tick

Spec == Init /\ [][Next]_vars

SpecSeq == InitSeq /\ [][Next]_vars

\* The steps of a call that the client takes by itself are taken: Wait
\* returns when it can, Execute goes on, the exchange of an attempt ends (by
\* an answer, a network error or its deadline), and the select of the backoff
\* delay takes the case that is ready.  When a caller calls, cancels or
\* resets, and whether time passes, is left open.
Fairness ==
  \A t \in Threads :
    /\ WF_vars(LimiterWait(t))
    /\ WF_vars(ExecuteSnapshot(t))
    /\ WF_vars(ExecuteCheck(t))
    /\ WF_vars(ExecutePromote(t))
    /\ WF_vars(Attempt(t))
    /\ WF_vars(SleepElapsed(t))
    /\ WF_vars(SleepCanceled(t))

\* calls are made one at a time by a client whose steps are taken
InitLive == InitCommon /\ callers = {1} /\ server = PlainOutcomes /\ ExtIdle

SpecLive == InitLive /\ [][Next]_vars /\ Fairness

\* ----- the RateLimiter on its own -----
\* ctx.Done() is ready
LimCtxDone(t) == lctx[t].cancelled \/ now >= lctx[t].deadline

\* the call of t returns v
LimReturn(t, v) ==
  /\ lpc' = [lpc EXCEPT ![t] = "idle"]
  /\ lret' = [lret EXCEPT ![t] = v]
  /\ lctx' = [lctx EXCEPT ![t] = NoCtx]
  /\ lr' = [lr EXCEPT ![t] = NoReservation]
  /\ admits' = IF metered /\ v \in {"nil", "true"} THEN [admits EXCEPT ![1] = @ + 1]
               ELSE admits

\* RateLimiter.Wait, lines 468-470: the limiter is read under the read lock,
\* which an UpdateLimit under way holds off.  The context may carry a deadline.
WaitEnter(t) ==
  /\ lpc[t] = "idle"
  /\ ~upd.busy
  /\ lpc' = [lpc EXCEPT ![t] = "wait"]
  /\ \E d \in {InfDuration, now + DeadlineTicks} :
       lctx' = [lctx EXCEPT ![t] = [cancelled |-> FALSE, deadline |-> d]]
  /\ lret' = [lret EXCEPT ![t] = "none"]
  /\ UNCHANGED <<now, pipeline, logVars, dnsVars, later, lim, lr, upd, admits, metered>>

\* RateLimiter.Wait, line 472, WaitN's first lock: a request of one token
\* against a burst below one is refused.
WaitBurstCheck(t) ==
  /\ lpc[t] = "wait"
  /\ IF 1 > lim.burst
     THEN LimReturn(t, "burst_err")
     ELSE /\ lpc' = [lpc EXCEPT ![t] = "reserve"]
          /\ UNCHANGED <<lctx, lr, lret, admits>>
  /\ UNCHANGED <<now, pipeline, logVars, dnsVars, later, lim, upd, metered>>

\* RateLimiter.Wait, line 472, WaitN's context check and reserveN: return at
\* once, with nil or an error, or park until the reservation's time.
WaitReserve(t) ==
  /\ lpc[t] = "reserve"
  /\ IF LimCtxDone(t)
     THEN LimReturn(t, "ctx_err") /\ UNCHANGED lim
     ELSE LET r == reserveN(lim, now, 1, lctx[t].deadline - now)
          IN /\ r.timeToAct <= MaxTime      \* reservations within the modelled time
             /\ lim' = r.lim
             /\ IF ~r.ok THEN LimReturn(t, "deadline_err")
                ELSE IF r.timeToAct = now THEN LimReturn(t, "nil")
                ELSE /\ lpc' = [lpc EXCEPT ![t] = "parked"]
                     /\ lr' = [lr EXCEPT ![t] = [timeToAct |-> r.timeToAct,
                                                 limit |-> r.limit]]
                     /\ UNCHANGED <<lctx, lret, admits>>
  /\ UNCHANGED <<now, pipeline, logVars, dnsVars, later, upd, metered>>

\* RateLimiter.Wait, line 472, WaitN's select: the timer fires.
WaitWake(t) ==
  /\ lpc[t] = "parked"
  /\ now >= lr[t].timeToAct
  /\ LimReturn(t, "nil")
  /\ UNCHANGED <<now, pipeline, logVars, dnsVars, later, lim, upd, metered>>

\* RateLimiter.Wait, line 472, WaitN's select: the context is done first; the
\* reservation is cancelled.
WaitCancelled(t) ==
  /\ lpc[t] = "parked"
  /\ LimCtxDone(t)
  /\ lim' = CancelAt(lim, lr[t], now)
  /\ LimReturn(t, "ctx_err")
  /\ UNCHANGED <<now, pipeline, logVars, dnsVars, later, upd, metered>>

\* The caller's context is cancelled during Wait, before the timer has fired.
LimCancel(t) ==
  /\ lpc[t] \in {"wait", "reserve"} \/ (lpc[t] = "parked" /\ now < lr[t].timeToAct)
  /\ ~lctx[t].cancelled
  /\ lctx' = [lctx EXCEPT ![t].cancelled = TRUE]
  /\ UNCHANGED <<now, pipeline, logVars, dnsVars, later, lim, lpc, lr, lret, upd, admits, metered>>

\* RateLimiter.Allow, lines 476-480, under the read lock.
Allow(t) ==
  /\ lpc[t] = "idle"
  /\ ~upd.busy
  /\ LET r == reserveN(lim, now, 1, 0)
     IN /\ lim' = r.lim
        /\ LimReturn(t, IF r.ok THEN "true" ELSE "false")
  /\ UNCHANGED <<now, pipeline, logVars, dnsVars, later, upd, metered>>

\* RateLimiter.UpdateLimit, lines 484-486: the write lock and SetLimit.
UpdateLimitSetLimit ==
  /\ ~upd.busy
  /\ \E rps \in 1..RateBound, burst \in 0..LimBurstBound :
       /\ lim' = SetLimitAt(lim, now, rps)
       /\ upd' = [busy |-> TRUE, burst |-> burst]
  /\ UNCHANGED <<now, pipeline, logVars, dnsVars, later, lpc, lctx, lr, lret, admits, metered>>

\* RateLimiter.UpdateLimit, line 487: SetBurst, and the lock is released.
UpdateLimitSetBurst ==
  /\ upd.busy
  /\ lim' = SetBurstAt(lim, now, upd.burst)
  /\ upd' = NoUpdate
  /\ UNCHANGED <<now, pipeline, logVars, dnsVars, later, lpc, lctx, lr, lret, admits, metered>>

\* Time passes while every caller is idle or parked with its timer and its
\* context pending; the steps between are taken within one clock reading.
LimTick ==
  /\ now < MaxTime
  /\ ~upd.busy
  /\ \A t \in Threads :
       \/ lpc[t] = "idle"
       \/ lpc[t] = "parked" /\ now < lr[t].timeToAct /\ ~LimCtxDone(t)
  /\ now' = now + 1
  /\ admits' = IF metered THEN [k \in 1..LimBurstBound |-> IF k = 1 THEN 0 ELSE admits[k - 1]]
               ELSE admits
  /\ UNCHANGED <<pipeline, logVars, dnsVars, later, lim, lpc, lctx, lr, lret, upd, metered>>

NextLim ==
  \/ \E t \in Threads : WaitEnter(t)
  \/ \E t \in Threads : WaitBurstCheck(t)
  \/ \E t \in Threads : WaitReserve(t)
  \/ \E t \in Threads : WaitWake(t)
  \/ \E t \in Threads : WaitCancelled(t)
  \/ \E t \in Threads : LimCancel(t)
  \/ \E t \in Threads : Allow(t)
  \/ UpdateLimitSetLimit
  \/ UpdateLimitSetBurst
  \/ LimTick

\* NewRateLimiter with any RequestsPerSecond and BurstSize; the request
\* pipeline is idle.
InitLimiter ==
  /\ InitCommon /\ config.maxFailures = 1 /\ callers = {} /\ server = {}
  /\ \E rps \in 1..RateBound, b \in 0..LimBurstBound : lim = NewLimiter(rps, b)
  /\ lpc = [t \in Threads |-> "idle"]
  /\ lctx = [t \in Threads |-> NoCtx]
  /\ lr = [t \in Threads |-> NoReservation]
  /\ lret = [t \in Threads |-> "none"]
  /\ upd = NoUpdate
  /\ admits = [k \in 1..LimBurstBound |-> 0]
  /\ LogIdle /\ DnsIdle /\ LaterIdle

\* callers of Wait, Allow and UpdateLimit
InitLim == InitLimiter /\ metered = FALSE

SpecLim == InitLim /\ [][NextLim]_vars

\* callers of Wait and Allow on a limiter of one token per tick whose limit
\* stays as configured; the admissions are counted
NextAdmit ==
  \/ \E t \in Threads : WaitEnter(t)
  \/ \E t \in Threads : WaitBurstCheck(t)
  \/ \E t \in Threads : WaitReserve(t)
  \/ \E t \in Threads : WaitWake(t)
  \/ \E t \in Threads : WaitCancelled(t)
  \/ \E t \in Threads : LimCancel(t)
  \/ \E t \in Threads : Allow(t)
  \/ LimTick

InitAdmit == InitLimiter /\ lim.limit = 1 /\ metered = TRUE

SpecAdmit == InitAdmit /\ [][NextAdmit]_vars

\* ----- the logging on its own -----

\* One attempt of a command by both clients, answered alike: doHTTPRequest,
\* lines 846-850, and logRetryAttempt.
LoggedAttempt ==
  /\ exchanged < LogBound
  /\ \E command \in Commands, out \in NetOutcomes \cup HttpOutcomes :
       logs' = [c \in Threads |-> logs[c] \o AttemptRecords(apiKey[c], logger, command, out)]
  /\ exchanged' = exchanged + 1
  /\ UNCHANGED <<now, pipeline, limiterVars, dnsVars, later, apiKey, logger>>

NextLog == LoggedAttempt

\* two clients built by NewClient from configurations that differ in APIKey
\* alone, with any logger
InitLog ==
  /\ InitCommon /\ config.maxFailures = 1 /\ callers = {} /\ server = {}
  /\ LimiterIdle /\ DnsIdle /\ LaterIdle
  /\ apiKey \in [Threads -> ApiKeys]
  /\ apiKey[1] # apiKey[2]
  /\ logger \in [sink : BOOLEAN, verbosity : 0..VerbosityBound]
  /\ logs = [c \in Threads |-> <<>>]
  /\ exchanged = 0

SpecLog == InitLog /\ [][NextLog]_vars

\* ----- the DNS operations on their own -----
\* the records a caller passes: HostID 0 and TTL 0 are the zero values of a
\* DNSRecord whose caller left them out
OpRecords ==
  {Host(id, n, ty, a, ttl, 0) :
     id \in 0..DnsBound, n \in HostNames, ty \in RecordTypes, a \in Addresses,
     ttl \in {0, 300}}

\* CreateDNSRecord, UpdateDNSRecord or DeleteDNSRecord is called.
DnsBegin ==
  /\ dpc = "idle"
  /\ \E kind \in {"create", "update", "delete"}, rec \in OpRecords :
       /\ kind = "create" => rec.HostID = 0 /\ Len(remote) < DnsBound
       /\ kind = "delete" => rec = Host(0, rec.Name, rec.Type, "192.0.2.1", 0, 0)
       /\ dop' = [kind |-> kind, record |-> rec]
  /\ dpc' = "get"
  /\ dread' = <<>> /\ dsent' = <<>> /\ dgets' = 0 /\ dres' = "none"
  /\ UNCHANGED <<now, pipeline, limiterVars, logVars, later, remote>>

\* GetDNSRecords, lines 49-71, called first by each of the three: the command
\* fails or the hosts of the response are returned.
DnsGetHosts ==
  /\ dpc = "get"
  /\ dgets' = dgets + 1
  /\ \/ /\ dread' = remote
        /\ dpc' = "modify"
        /\ UNCHANGED dres
     \/ /\ dres' = "failed to get existing DNS records"
        /\ dpc' = "done"
        /\ UNCHANGED dread
  /\ UNCHANGED <<now, pipeline, limiterVars, logVars, later, remote, dop, dsent>>

\* The rest of the operation: the new list (lines 98, 113-124, 138-150) and
\* setDNSRecords, lines 156-198.  A setHosts that fails may have been carried
\* out by the provider or not.
DnsSetHosts ==
  /\ dpc = "modify"
  /\ dpc' = "done"
  /\ LET rec == dop.record
         found == CASE dop.kind = "create" -> TRUE
                    [] dop.kind = "update" ->
                         \E i \in DOMAIN dread : UpdateMatches(dread[i], rec)
                    [] dop.kind = "delete" ->
                         \E i \in DOMAIN dread : DeleteMatches(dread[i], rec)
         updated == CASE dop.kind = "create" -> Append(dread, rec)
                      [] dop.kind = "update" -> UpdateRecords(dread, rec)
                      [] dop.kind = "delete" -> DeleteRecords(dread, rec)
         params == [i \in DOMAIN updated |-> HostParams(updated[i])]
     IN IF ~found
        THEN /\ dres' = "DNS record not found"
             /\ UNCHANGED <<remote, dsent>>
        ELSE /\ dsent' = Append(dsent, params)
             /\ \/ remote' = StoreHosts(params) /\ dres' = "ok"
                \/ remote' = StoreHosts(params) /\ dres' = "failed to update DNS records"
                \/ UNCHANGED remote /\ dres' = "failed to update DNS records"
  /\ UNCHANGED <<now, pipeline, limiterVars, logVars, later, dop, dread, dgets>>

\* The operation has returned.
DnsReturn ==
  /\ dpc = "done"
  /\ dpc' = "idle"
  /\ dop' = NoOp /\ dread' = <<>> /\ dsent' = <<>> /\ dgets' = 0 /\ dres' = "none"
  /\ UNCHANGED <<now, pipeline, limiterVars, logVars, later, remote>>

NextDns == DnsBegin \/ DnsGetHosts \/ DnsSetHosts \/ DnsReturn

\* any host records at the provider, and one writer
InitDns ==
  /\ InitCommon /\ config.maxFailures = 1 /\ callers = {} /\ server = {}
  /\ LimiterIdle /\ LogIdle /\ LaterIdle
  /\ \E n \in 0..DnsBound :
       \E params \in [1..n -> {HostParams(r) : r \in OpRecords}] : remote = StoreHosts(params)
  /\ dpc = "idle"
  /\ dop = NoOp
  /\ dread = <<>>
  /\ dsent = <<>>
  /\ dgets = 0
  /\ dres = "none"

SpecDns == InitDns /\ [][NextDns]_vars

\* ----- two writers of the DNS records of one domain -----
\* the A records the writers pass
WriterRecords == {Host(0, n, "A", a, 0, 0) : n \in HostNames, a \in Addresses}

\* CreateDNSRecord, UpdateDNSRecord or DeleteDNSRecord is called by writer w.
WriterBegin(w) ==
  /\ wpc[w] = "idle"
  /\ \E kind \in {"create", "update", "delete"}, rec \in WriterRecords :
       /\ kind = "delete" => rec.Address = "192.0.2.1"
       /\ wop' = [wop EXCEPT ![w] = [kind |-> kind, record |-> rec]]
  /\ wpc' = [wpc EXCEPT ![w] = "get"]
  /\ wlast' = IF wlast = w THEN 0 ELSE wlast
  /\ UNCHANGED <<wread, wres>>
  /\ UNCHANGED <<now, pipeline, limiterVars, logVars, dnsVars, besideWriters>>

\* GetDNSRecords, lines 49-71, called first (lines 92, 106, 132): the command
\* fails or the hosts the provider holds now are returned.  Nothing is locked.
WriterGetHosts(w) ==
  /\ wpc[w] = "get"
  /\ \/ /\ wop[w].kind = "create" => Len(remote) < DnsBound
        /\ wread' = [wread EXCEPT ![w] = remote]
        /\ wpc' = [wpc EXCEPT ![w] = "modify"]
        /\ UNCHANGED wres
     \/ /\ wres' = [wres EXCEPT ![w] = "failed to get existing DNS records"]
        /\ wpc' = [wpc EXCEPT ![w] = "done"]
        /\ UNCHANGED wread
  /\ UNCHANGED <<wop, wlast>>
  /\ UNCHANGED <<now, pipeline, limiterVars, logVars, dnsVars, besideWriters>>

\* WriterSetHosts that reads the provider's records again before it writes.
WriterSetHosts_reread(w) ==
  /\ wpc[w] = "modify"
  /\ wpc' = [wpc EXCEPT ![w] = "done"]
  /\ IF ~FoundHost(wop[w].kind, remote, wop[w].record)
     THEN /\ wres' = [wres EXCEPT ![w] = "DNS record not found"]
          /\ UNCHANGED <<remote, wlast>>
     ELSE /\ remote' = StoreHosts(ListParams(NewHosts(wop[w].kind, remote, wop[w].record)))
          /\ wlast' = w
          /\ wres' = [wres EXCEPT ![w] = "ok"]
  /\ UNCHANGED <<wop, wread>>
  /\ UNCHANGED <<now, pipeline, limiterVars, logVars, dpc, dop, dread, dsent, dgets, dres,
                 besideWriters>>

\* The rest of the operation: the new list made from the list that was read
\* and setDNSRecords, lines 156-198, which replaces the provider's records by
\* the list sent.
WriterSetHosts(w) ==
  /\ wpc[w] = "modify"
  /\ wpc' = [wpc EXCEPT ![w] = "done"]
  /\ IF ~FoundHost(wop[w].kind, wread[w], wop[w].record)
     THEN /\ wres' = [wres EXCEPT ![w] = "DNS record not found"]
          /\ UNCHANGED <<remote, wlast>>
     ELSE /\ remote' = StoreHosts(ListParams(NewHosts(wop[w].kind, wread[w], wop[w].record)))
          /\ wlast' = w
          /\ wres' = [wres EXCEPT ![w] = "ok"]
  /\ UNCHANGED <<wop, wread>>
  /\ UNCHANGED <<now, pipeline, limiterVars, logVars, dpc, dop, dread, dsent, dgets, dres,
                 besideWriters>>

\* The operation of writer w has returned; each writer makes one call.
WriterReturn(w) ==
  /\ wpc[w] = "done"
  /\ wpc' = [wpc EXCEPT ![w] = "returned"]
  /\ wop' = [wop EXCEPT ![w] = NoOp]
  /\ wread' = [wread EXCEPT ![w] = <<>>]
  /\ wres' = [wres EXCEPT ![w] = "none"]
  /\ wlast' = IF wlast = w THEN 0 ELSE wlast
  /\ UNCHANGED <<now, pipeline, limiterVars, logVars, dnsVars, besideWriters>>

NextWriters ==
  \/ \E w \in Threads : WriterBegin(w)
  \/ \E w \in Threads : WriterGetHosts(w)
  \/ \E w \in Threads : WriterSetHosts(w)
  \/ \E w \in Threads : WriterReturn(w)

\* any A records at the provider, and two writers of the same domain
InitWriters ==
  /\ InitCommon /\ config.maxFailures = 1 /\ callers = {} /\ server = {}
  /\ LimiterIdle /\ LogIdle
  /\ \E n \in 0..DnsBound :
       \E params \in [1..n -> {HostParams(r) : r \in WriterRecords}] : remote = StoreHosts(params)
  /\ dpc = "idle" /\ dop = NoOp /\ dread = <<>> /\ dsent = <<>> /\ dgets = 0 /\ dres = "none"
  /\ WritersIdle /\ HooksIdle /\ DomainsIdle /\ LocksIdle /\ RetriesIdle
  /\ DelaysIdle /\ ConnectsIdle /\ ProbesIdle /\ ReconcilesIdle

SpecWriters == InitWriters /\ [][NextWriters]_vars

\* ----- the webhook server on its own -----
\* the headers a sender may put on a body: none, a digest of this body or of
\* another under one of the keys, behind up to two "sha256=", or another string
Signatures(body) ==
  {NoSignature, Signature(0, Garbage), Signature(1, NoDigest)}
    \cup {Signature(n, HmacHex(k, b)) : n \in 0..2, k \in SignKeys, b \in {body, InvalidJSON}}

\* Respond that counts a request without a processor as processed.
Respond_countsUnmatched(h, status, counter) ==
  /\ hstatus' = [hstatus EXCEPT ![h] = status]
  /\ hcount' = [hcount EXCEPT ![h] = counter]
  /\ metrics' = IF counter = "none" THEN [metrics EXCEPT !.eventsProcessed = @ + 1]
                ELSE [metrics EXCEPT ![counter] = @ + 1]
  /\ hpc' = [hpc EXCEPT ![h] = "done"]

\* the response of handler h is written and the handler returns
Respond(h, status, counter) ==
  /\ hstatus' = [hstatus EXCEPT ![h] = status]
  /\ hcount' = [hcount EXCEPT ![h] = counter]
  /\ metrics' = IF counter = "none" THEN metrics
                ELSE [metrics EXCEPT ![counter] = @ + 1]
  /\ hpc' = [hpc EXCEPT ![h] = "done"]

\* handleWebhook, line 166: a request arrives and is counted.
HookBegin(h) ==
  /\ h \in handlers
  /\ hpc[h] = "idle"
  /\ metrics.requestsTotal < HookBound
  /\ metrics' = [metrics EXCEPT !.requestsTotal = @ + 1]
  /\ \E body \in arrivals, readable \in BOOLEAN :
       \E sig \in Signatures(body) :
         hreq' = [hreq EXCEPT ![h] = [body |-> body, signature |-> sig,
                                      readable |-> readable]]
  /\ hpc' = [hpc EXCEPT ![h] = "read"]
  /\ hstatus' = [hstatus EXCEPT ![h] = 0]
  /\ hran' = [hran EXCEPT ![h] = <<>>]
  /\ hcount' = [hcount EXCEPT ![h] = "none"]
  /\ UNCHANGED <<hsecret, sprocessors, mprocessors, handlers, arrivals>>
  /\ UNCHANGED <<now, pipeline, limiterVars, logVars, dnsVars, besideHooks>>

\* handleWebhook, lines 174-213: the body is read, the signature verified,
\* the event parsed and its processor looked up.
HookAccept(h) ==
  /\ hpc[h] = "read"
  /\ LET req == hreq[h]
     IN IF ~req.readable
        THEN Respond(h, 400, "requestsErrors")
        ELSE IF ~verifySignature(hsecret, req.body, req.signature)
        THEN Respond(h, 401, "requestsErrors")
        ELSE IF ~req.body.json
        THEN Respond(h, 400, "requestsErrors")
        ELSE IF req.body.type \notin EventTypes \/ sprocessors[req.body.type] = "none"
        THEN Respond(h, 200, "none")
        ELSE /\ hpc' = [hpc EXCEPT ![h] = "process"]
             /\ UNCHANGED <<metrics, hstatus, hcount>>
  /\ UNCHANGED <<hsecret, sprocessors, mprocessors, handlers, arrivals, hreq, hran>>
  /\ UNCHANGED <<now, pipeline, limiterVars, logVars, dnsVars, besideHooks>>

\* handleWebhook, lines 215-235: the processor of the event's type runs.
HookProcess(h) ==
  /\ hpc[h] = "process"
  /\ LET processor == sprocessors[hreq[h].body.type]
     IN /\ hran' = [hran EXCEPT ![h] = Append(@, processor)]
        /\ IF Process(processor, hreq[h].body) # "nil"
           THEN Respond(h, 500, "processingErrors")
           ELSE Respond(h, 200, "eventsProcessed")
  /\ UNCHANGED <<hsecret, sprocessors, mprocessors, handlers, arrivals, hreq>>
  /\ UNCHANGED <<now, pipeline, limiterVars, logVars, dnsVars, besideHooks>>

\* The handler is free for the next request.
HookReturn(h) ==
  /\ hpc[h] = "done"
  /\ hpc' = [hpc EXCEPT ![h] = "idle"]
  /\ hreq' = [hreq EXCEPT ![h] = NoRequest]
  /\ hstatus' = [hstatus EXCEPT ![h] = 0]
  /\ hran' = [hran EXCEPT ![h] = <<>>]
  /\ hcount' = [hcount EXCEPT ![h] = "none"]
  /\ UNCHANGED <<hsecret, sprocessors, mprocessors, metrics, handlers, arrivals>>
  /\ UNCHANGED <<now, pipeline, limiterVars, logVars, dnsVars, besideHooks>>

\* WebhookManager.RegisterDefaultProcessors, lines 73-112: RegisterProcessor
\* for the fourteen event types, then AddProcessor of the logging processor
\* for each of them.  SetupWebhookServer calls it before the server is started.
RegisterDefaultProcessors ==
  /\ mprocessors = [ty \in EventTypes |-> <<>>]
  /\ \A h \in Threads : hpc[h] = "idle"
  /\ sprocessors' = [ty \in EventTypes |-> DefaultProcessor(ty)]
  /\ mprocessors' = [ty \in EventTypes |-> Append(mprocessors[ty], "logging")]
  /\ UNCHANGED <<hsecret, metrics, handlers, arrivals, hpc, hreq, hstatus, hran, hcount>>
  /\ UNCHANGED <<now, pipeline, limiterVars, logVars, dnsVars, besideHooks>>

NextHook ==
  \/ \E h \in Threads : HookBegin(h)
  \/ \E h \in Threads : HookAccept(h)
  \/ \E h \in Threads : HookProcess(h)
  \/ \E h \in Threads : HookReturn(h)
  \/ RegisterDefaultProcessors

\* a server built by NewServer with or without a secret, and its manager
InitHooks ==
  /\ InitCommon /\ config.maxFailures = 1 /\ callers = {} /\ server = {}
  /\ LimiterIdle /\ LogIdle /\ DnsIdle /\ WritersIdle /\ DomainsIdle /\ LocksIdle
  /\ RetriesIdle /\ DelaysIdle /\ ConnectsIdle /\ ProbesIdle /\ ReconcilesIdle
  /\ NewHooks
  /\ hsecret \in {"", "test-secret-key"}

\* requests with any body are served one at a time
InitHook == InitHooks /\ handlers = {1} /\ arrivals = Bodies

SpecHook == InitHook /\ [][NextHook]_vars

\* requests are served by two handlers at a time: bodies that are no JSON,
\* that name a type with a default processor which accepts or refuses them,
\* and that name a type without one
ConcurrentBodies ==
  {InvalidJSON, Body(TRUE, "domain.registered", TRUE, TRUE),
   Body(TRUE, "domain.registered", FALSE, FALSE), Body(TRUE, "unknown.event", FALSE, FALSE)}
InitHooksConcurrent ==
  InitHooks /\ hsecret = "test-secret-key" /\ handlers = Threads /\ arrivals = ConcurrentBodies

SpecHooks == InitHooksConcurrent /\ [][NextHook]_vars

\* ----- CreateDomain and RenewDomain on their own -----
\* CreateDomain or RenewDomain is called.
DomainBegin ==
  /\ opc = "idle"
  /\ \E kind \in {"create", "renew"}, name \in DomainNames, years \in 1..YearsBound :
       oop' = [kind |-> kind, domainName |-> name, years |-> years]
  /\ opc' = "mutate"
  /\ ocalls' = <<>> /\ omut' = NoAnswer /\ ores' = NoResult
  /\ UNCHANGED <<now, pipeline, limiterVars, logVars, dnsVars, besideDomains>>

\* CreateDomain, lines 302-314, and RenewDomain, lines 408-420: makeRequest
\* with the mutating command, parseResponse and the test of Registered or
\* Renew.
DomainMutate ==
  /\ opc = "mutate"
  /\ ocalls' = Append(ocalls, MutatingCommand(oop.kind))
  /\ \E a \in Answers :
       /\ omut' = a
       /\ IF MutationError(oop.kind, a) # "nil"
          THEN /\ ores' = [domain |-> "nil", err |-> MutationError(oop.kind, a)]
               /\ opc' = "done"
          ELSE /\ opc' = "getInfo"
               /\ UNCHANGED ores
  /\ UNCHANGED oop
  /\ UNCHANGED <<now, pipeline, limiterVars, logVars, dnsVars, besideDomains>>

\* CreateDomain, line 317, and RenewDomain, line 423: GetDomain, whose result
\* is returned as it is.
DomainGetInfo ==
  /\ opc = "getInfo"
  /\ ocalls' = Append(ocalls, "namecheap.domains.getInfo")
  /\ \E a \in Answers : ores' = GetDomainResult(oop.domainName, a)
  /\ opc' = "done"
  /\ UNCHANGED <<oop, omut>>
  /\ UNCHANGED <<now, pipeline, limiterVars, logVars, dnsVars, besideDomains>>

\* The operation has returned.
DomainReturn ==
  /\ opc = "done"
  /\ opc' = "idle"
  /\ oop' = NoDomainOp /\ ocalls' = <<>> /\ omut' = NoAnswer /\ ores' = NoResult
  /\ UNCHANGED <<now, pipeline, limiterVars, logVars, dnsVars, besideDomains>>

NextDomains == DomainBegin \/ DomainMutate \/ DomainGetInfo \/ DomainReturn

InitDomains ==
  /\ InitCommon /\ config.maxFailures = 1 /\ callers = {} /\ server = {}
  /\ LimiterIdle /\ LogIdle /\ DnsIdle /\ WritersIdle /\ HooksIdle /\ LocksIdle
  /\ RetriesIdle /\ DelaysIdle /\ ConnectsIdle /\ ProbesIdle /\ ReconcilesIdle
  /\ DomainsIdle

SpecDomains == InitDomains /\ [][NextDomains]_vars

\* ----- the mutexes on their own -----
\* goroutine t moves to position p
Goto(t, p) == kpc' = [kpc EXCEPT ![t] = p]

\* makeRequest, Reset or UpdateLimit is called.
MuBegin(t) ==
  /\ kpc[t] = "idle"
  /\ \E p \in {"Wait:468", "Reset:606", "UpdateLimit:484"} : Goto(t, p)
  /\ UNCHANGED <<now, cb, tokens, snap, cbmu, rlmu, kerr, unlocked>>
  /\ UNCHANGED <<limiterVars, logVars, dnsVars, besideLocks>>

\* RateLimiter.Wait, line 468: rl.mu.RLock().
MuWaitRLock(t) ==
  /\ kpc[t] = "Wait:468"
  /\ CanRLock(rlmu)
  /\ rlmu' = RLock(rlmu, t)
  /\ Goto(t, "Wait:469")
  /\ UNCHANGED <<now, cb, tokens, snap, cbmu, kerr, unlocked>>
  /\ UNCHANGED <<limiterVars, logVars, dnsVars, besideLocks>>

\* MuWaitRUnlock without the RUnlock: the read lock is kept into limiter.Wait.
MuWaitRUnlock_keepsLock(t) ==
  /\ kpc[t] = "Wait:469"
  /\ Goto(t, "Wait:472")
  /\ UNCHANGED <<now, cb, tokens, snap, cbmu, rlmu, kerr, unlocked>>
  /\ UNCHANGED <<limiterVars, logVars, dnsVars, besideLocks>>

\* RateLimiter.Wait, lines 469-470: the limiter is read and rl.mu.RUnlock().
MuWaitRUnlock(t) ==
  /\ kpc[t] = "Wait:469"
  /\ rlmu' = RUnlock(rlmu, t)
  /\ Goto(t, "Wait:472")
  /\ UNCHANGED <<now, cb, tokens, snap, cbmu, kerr, unlocked>>
  /\ UNCHANGED <<limiterVars, logVars, dnsVars, besideLocks>>

\* RateLimiter.Wait, line 472: limiter.Wait blocks until a token is there or
\* the context is done, and makeRequest goes on to Execute (line 809) or
\* returns (line 805).
MuWaitBlocked(t) ==
  /\ kpc[t] = "Wait:472"
  /\ \/ /\ tokens >= 1
        /\ tokens' = tokens - 1
        /\ Goto(t, "Execute:544")
     \/ /\ UNCHANGED tokens
        /\ Goto(t, "return")
  /\ UNCHANGED <<now, cb, snap, cbmu, rlmu, kerr, unlocked>>
  /\ UNCHANGED <<limiterVars, logVars, dnsVars, besideLocks>>

\* Execute, line 544: cb.mu.RLock().
MuExecuteRLock(t) ==
  /\ kpc[t] = "Execute:544"
  /\ CanRLock(cbmu)
  /\ cbmu' = RLock(cbmu, t)
  /\ Goto(t, "Execute:545")
  /\ UNCHANGED <<now, cb, tokens, snap, rlmu, kerr, unlocked>>
  /\ UNCHANGED <<limiterVars, logVars, dnsVars, besideLocks>>

\* Execute, lines 545-548: the snapshot and cb.mu.RUnlock().
MuExecuteRUnlock(t) ==
  /\ kpc[t] = "Execute:545"
  /\ snap' = [snap EXCEPT ![t] = cb]
  /\ cbmu' = RUnlock(cbmu, t)
  /\ Goto(t, "Execute:551")
  /\ UNCHANGED <<now, cb, tokens, rlmu, kerr, unlocked>>
  /\ UNCHANGED <<limiterVars, logVars, dnsVars, besideLocks>>

\* Execute, lines 551, 561 and 567 for the state the call has seen: on to the
\* write lock, fail fast, or call fn.
MuExecuteCheck(t) ==
  /\ kpc[t] = "Execute:551"
  /\ IF snap[t].state = CircuitOpen
        /\ TimeoutElapsed(snap[t].lastFailTime, now, config.resetTimeout)
     THEN Goto(t, "Execute:552")
     ELSE IF snap[t].state = CircuitOpen THEN Goto(t, "return")
     ELSE Goto(t, "Execute:567")
  /\ UNCHANGED <<now, cb, tokens, snap, cbmu, rlmu, kerr, unlocked>>
  /\ UNCHANGED <<limiterVars, logVars, dnsVars, besideLocks>>

\* Execute, line 552: cb.mu.Lock().
MuPromoteLock(t) ==
  /\ kpc[t] = "Execute:552"
  /\ CanLock(cbmu)
  /\ cbmu' = Lock(cbmu, t)
  /\ Goto(t, "Execute:553")
  /\ UNCHANGED <<now, cb, tokens, snap, rlmu, kerr, unlocked>>
  /\ UNCHANGED <<limiterVars, logVars, dnsVars, besideLocks>>

\* Execute, lines 553-567: the second look, cb.mu.Unlock(), then fail fast or
\* call fn.
MuPromoteUnlock(t) ==
  /\ kpc[t] = "Execute:553"
  /\ LET newState == IF cb.state = CircuitOpen
                        /\ TimeoutElapsed(cb.lastFailTime, now, config.resetTimeout)
                     THEN CircuitHalfOpen ELSE cb.state
     IN /\ cb' = [cb EXCEPT !.state = newState]
        /\ snap' = [snap EXCEPT ![t].state = newState]
        /\ IF newState = CircuitOpen THEN Goto(t, "return") ELSE Goto(t, "Execute:567")
  /\ cbmu' = Unlock(cbmu, t)
  /\ UNCHANGED <<now, tokens, rlmu, kerr, unlocked>>
  /\ UNCHANGED <<limiterVars, logVars, dnsVars, besideLocks>>

\* Execute, line 567: fn, the retry loop with its exchanges and delays, runs
\* and returns an error or nil.
MuWrapped(t) ==
  /\ kpc[t] = "Execute:567"
  /\ \E failed \in BOOLEAN : kerr' = [kerr EXCEPT ![t] = failed]
  /\ Goto(t, "Execute:570")
  /\ UNCHANGED <<now, cb, tokens, snap, cbmu, rlmu, unlocked>>
  /\ UNCHANGED <<limiterVars, logVars, dnsVars, besideLocks>>

\* Execute, line 570: cb.mu.Lock().
MuRecordLock(t) ==
  /\ kpc[t] = "Execute:570"
  /\ CanLock(cbmu)
  /\ cbmu' = Lock(cbmu, t)
  /\ Goto(t, "Execute:573")
  /\ UNCHANGED <<now, cb, tokens, snap, rlmu, kerr, unlocked>>
  /\ UNCHANGED <<limiterVars, logVars, dnsVars, besideLocks>>

\* Execute, lines 573-594: the outcome is recorded and the deferred
\* cb.mu.Unlock() runs as Execute returns.
MuRecordUnlock(t) ==
  /\ kpc[t] = "Execute:573"
  /\ cb' = RecordResult(cb, kerr[t], now, config.maxFailures)
  /\ cbmu' = Unlock(cbmu, t)
  /\ Goto(t, "return")
  /\ UNCHANGED <<now, tokens, snap, rlmu, kerr, unlocked>>
  /\ UNCHANGED <<limiterVars, logVars, dnsVars, besideLocks>>

\* Reset, line 606, and UpdateLimit, line 484: Lock().
MuAdminLock(t) ==
  /\ \/ /\ kpc[t] = "Reset:606"
        /\ CanLock(cbmu)
        /\ cbmu' = Lock(cbmu, t)
        /\ Goto(t, "Reset:608")
        /\ UNCHANGED rlmu
     \/ /\ kpc[t] = "UpdateLimit:484"
        /\ CanLock(rlmu)
        /\ rlmu' = Lock(rlmu, t)
        /\ Goto(t, "UpdateLimit:486")
        /\ UNCHANGED cbmu
  /\ UNCHANGED <<now, cb, tokens, snap, kerr, unlocked>>
  /\ UNCHANGED <<limiterVars, logVars, dnsVars, besideLocks>>

\* Reset, lines 608-610, and UpdateLimit, lines 486-487, with the deferred
\* Unlock().  SetLimit and SetBurst leave the tokens of the bucket.
MuAdminUnlock(t) ==
  /\ \/ /\ kpc[t] = "Reset:608"
        /\ cb' = [state |-> CircuitClosed, failures |-> 0, lastFailTime |-> ZeroTime]
        /\ cbmu' = Unlock(cbmu, t)
        /\ UNCHANGED rlmu
     \/ /\ kpc[t] = "UpdateLimit:486"
        /\ rlmu' = Unlock(rlmu, t)
        /\ UNCHANGED <<cb, cbmu>>
  /\ Goto(t, "return")
  /\ UNCHANGED <<now, tokens, snap, kerr, unlocked>>
  /\ UNCHANGED <<limiterVars, logVars, dnsVars, besideLocks>>

\* The call has returned.
MuReturn(t) ==
  /\ kpc[t] = "return"
  /\ Goto(t, "idle")
  /\ snap' = [snap EXCEPT ![t] = NoSnap]
  /\ kerr' = [kerr EXCEPT ![t] = FALSE]
  /\ UNCHANGED <<now, cb, tokens, cbmu, rlmu, unlocked>>
  /\ UNCHANGED <<limiterVars, logVars, dnsVars, besideLocks>>

NextLocks ==
  \/ \E t \in Threads : MuBegin(t)
  \/ \E t \in Threads : MuWaitRLock(t)
  \/ \E t \in Threads : MuWaitRUnlock(t)
  \/ \E t \in Threads : MuWaitBlocked(t)
  \/ \E t \in Threads : MuExecuteRLock(t)
  \/ \E t \in Threads : MuExecuteRUnlock(t)
  \/ \E t \in Threads : MuExecuteCheck(t)
  \/ \E t \in Threads : MuPromoteLock(t)
  \/ \E t \in Threads : MuPromoteUnlock(t)
  \/ \E t \in Threads : MuWrapped(t)
  \/ \E t \in Threads : MuRecordLock(t)
  \/ \E t \in Threads : MuRecordUnlock(t)
  \/ \E t \in Threads : MuAdminLock(t)
  \/ \E t \in Threads : MuAdminUnlock(t)
  \/ \E t \in Threads : MuReturn(t)
  \/ Tick

\* a client built by NewClient, its mutexes unlocked
InitLocks ==
  /\ InitCommon /\ callers = {} /\ server = {}
  /\ LimiterIdle /\ LogIdle /\ DnsIdle /\ WritersIdle /\ HooksIdle /\ DomainsIdle
  /\ RetriesIdle /\ DelaysIdle /\ ConnectsIdle /\ ProbesIdle /\ ReconcilesIdle
  /\ LocksIdle

SpecLocks == InitLocks /\ [][NextLocks]_vars

\* ----- WithRetry on its own, with exchanges that take time -----
\* WithRetry, lines 444-446: attemptCtx is made and fn is called with it.
StartAttempt(a) ==
  /\ rpc' = "running"
  /\ rattempt' = a
  /\ rstart' = now
  /\ rdeadline' = AttemptDeadline(rctx, now)
  /\ rlive' = TRUE

\* WithRetry, lines 447-477, for the error err of the attempt: cancel() is
\* called, then the loop returns or waits for the backoff delay.  A return of
\* nil hands the response of the attempt, its body not yet read, to the domain
\* operation.
AfterAttempt(err) ==
  LET d == RetryDecision(err, rattempt, config.MaxRetries)
      last == IF err = Nil THEN rlast ELSE err
  IN /\ rlive' = FALSE
     /\ rbody' = IF d = "success" THEN "unread" ELSE rbody
     /\ IF d = "sleep"
        THEN /\ rpc' = "sleep"
             /\ rlast' = last
             /\ UNCHANGED rres
        ELSE /\ rpc' = "done"
             /\ rres' = WithRetryError(d, err, last, config.MaxRetries)
             /\ rlast' = Nil

\* WithRetry is called with a context that is live, with a deadline or none.
RetryBegin ==
  /\ rpc = "idle"
  /\ \E d \in {InfDuration} \cup (now + 1)..MaxTime :
       /\ rctx' = [cancelled |-> FALSE, deadline |-> d]
       /\ rpc' = "running"
       /\ rattempt' = 0
       /\ rstart' = now
       /\ rdeadline' = AttemptDeadline([cancelled |-> FALSE, deadline |-> d], now)
  /\ rlive' = TRUE
  /\ rbody' = "none"
  /\ rexpired' = 0
  /\ rlast' = Nil /\ rres' = Nil
  /\ UNCHANGED <<now, pipeline, limiterVars, logVars, dnsVars, besideRetries>>

\* doHTTPRequest, lines 852-872: the exchange ends before attemptCtx is done.
RetryAnswer ==
  /\ rpc = "running"
  /\ ~rctx.cancelled /\ now <= rdeadline
  /\ \E out \in NetOutcomes \cup HttpOutcomes : AfterAttempt(doHTTPRequest(out).err)
  /\ UNCHANGED <<rctx, rattempt, rstart, rdeadline, rexpired>>
  /\ UNCHANGED <<now, pipeline, limiterVars, logVars, dnsVars, besideRetries>>

\* doHTTPRequest, lines 852-855: attemptCtx reaches its deadline and ends the
\* exchange; httpClient.Do returns a *url.Error of context.DeadlineExceeded.
RetryExpire ==
  /\ rpc = "running"
  /\ ~rctx.cancelled /\ now >= rdeadline
  /\ AfterAttempt(doHTTPRequest(DeadlineOutcome).err)
  /\ rexpired' = rexpired + 1
  /\ UNCHANGED <<rctx, rattempt, rstart, rdeadline>>
  /\ UNCHANGED <<now, pipeline, limiterVars, logVars, dnsVars, besideRetries>>

\* doHTTPRequest, lines 852-855: the caller's context is cancelled and
\* attemptCtx with it; httpClient.Do returns a *url.Error of context.Canceled.
RetryAbort ==
  /\ rpc = "running"
  /\ rctx.cancelled
  /\ AfterAttempt(MkErr("url_canceled", 0))
  /\ UNCHANGED <<rctx, rattempt, rstart, rdeadline, rexpired>>
  /\ UNCHANGED <<now, pipeline, limiterVars, logVars, dnsVars, besideRetries>>

\* WithRetry, lines 468-470 and 442-446: the delay is over before the
\* caller's context is done; the next attempt gets its attemptCtx.
RetrySleepElapsed ==
  /\ rpc = "sleep"
  /\ ~CtxDone(rctx, now)
  /\ StartAttempt(rattempt + 1)
  /\ UNCHANGED <<rctx, rlast, rres, rexpired, rbody>>
  /\ UNCHANGED <<now, pipeline, limiterVars, logVars, dnsVars, besideRetries>>

\* WithRetry, lines 471-472: the caller's context is done during the delay.
RetrySleepCanceled ==
  /\ rpc = "sleep"
  /\ CtxDone(rctx, now)
  /\ rpc' = "done"
  /\ rres' = CtxErr(rctx)
  /\ rlast' = Nil
  /\ UNCHANGED <<rctx, rattempt, rstart, rdeadline, rexpired, rlive, rbody>>
  /\ UNCHANGED <<now, pipeline, limiterVars, logVars, dnsVars, besideRetries>>

\* The caller cancels its context.
RetryCancel ==
  /\ rpc \in {"running", "sleep"}
  /\ ~rctx.cancelled
  /\ rctx' = [rctx EXCEPT !.cancelled = TRUE]
  /\ UNCHANGED <<rpc, rattempt, rstart, rdeadline, rlast, rres, rexpired, rlive, rbody>>
  /\ UNCHANGED <<now, pipeline, limiterVars, logVars, dnsVars, besideRetries>>

\* parseResponse, lines 881-884: the domain operation reads the body of the
\* response it was handed.  The body belongs to a request made with
\* attemptCtx: once that context is cancelled the read gets what the transport
\* had buffered, the whole body or an error.
RetryParse ==
  /\ rpc = "done"
  /\ rbody = "unread"
  /\ rbody' \in (IF rlive THEN {"read"} ELSE {"read", "aborted"})
  /\ UNCHANGED <<rpc, rctx, rattempt, rstart, rdeadline, rlast, rres, rexpired, rlive>>
  /\ UNCHANGED <<now, pipeline, limiterVars, logVars, dnsVars, besideRetries>>

\* The domain operation has returned.
RetryReturn ==
  /\ rpc = "done"
  /\ rbody # "unread"
  /\ rpc' = "idle"
  /\ rctx' = NoCtx
  /\ rattempt' = 0 /\ rstart' = 0 /\ rdeadline' = 0
  /\ rlast' = Nil /\ rres' = Nil /\ rexpired' = 0
  /\ rlive' = FALSE /\ rbody' = "none"
  /\ UNCHANGED <<now, pipeline, limiterVars, logVars, dnsVars, besideRetries>>

\* Time passes while the exchange or the delay goes on: a context that is done
\* ends the exchange and the delay at that clock reading.
RetryTick ==
  /\ now < MaxTime
  /\ rpc = "running" => ~rctx.cancelled /\ now < rdeadline
  /\ rpc = "sleep" => ~CtxDone(rctx, now)
  /\ now' = now + 1
  /\ UNCHANGED <<pipeline, limiterVars, logVars, dnsVars, besideRetries, retryVars>>

NextRetry ==
  \/ RetryBegin
  \/ RetryAnswer
  \/ RetryExpire
  \/ RetryAbort
  \/ RetrySleepElapsed
  \/ RetrySleepCanceled
  \/ RetryCancel
  \/ RetryParse
  \/ RetryReturn
  \/ RetryTick

InitRetry ==
  /\ InitCommon /\ config.maxFailures = 1 /\ callers = {} /\ server = {}
  /\ LimiterIdle /\ LogIdle /\ DnsIdle /\ WritersIdle /\ HooksIdle /\ DomainsIdle
  /\ LocksIdle /\ DelaysIdle /\ ConnectsIdle /\ ProbesIdle /\ ReconcilesIdle
  /\ RetriesIdle

SpecRetry == InitRetry /\ [][NextRetry]_vars

\* ----- calculateDelay on its own -----
\* calculateDelay is called and returns.
DelayCall ==
  /\ cdpc = "idle"
  /\ \E c \in RetryConfigs, a \in 0..MaxRetriesBound, u \in Draws :
       /\ cdconfig' = c
       /\ cdattempt' = a
       /\ cddraw' = u
       /\ cddelay' = calculateDelay(c, a, u)
  /\ cdpc' = "returned"
  /\ UNCHANGED <<now, pipeline, limiterVars, logVars, dnsVars, besideDelays>>

\* The caller has used the delay.
DelayDone ==
  /\ cdpc = "returned"
  /\ cdpc' = "idle"
  /\ cdconfig' = NoRetryConfig
  /\ cdattempt' = 0 /\ cddraw' = 0 /\ cddelay' = 0
  /\ UNCHANGED <<now, pipeline, limiterVars, logVars, dnsVars, besideDelays>>

NextDelay ==
  \/ DelayCall
  \/ DelayDone

InitDelay ==
  /\ InitCommon /\ config.maxFailures = 1 /\ callers = {} /\ server = {}
  /\ LimiterIdle /\ LogIdle /\ DnsIdle /\ WritersIdle /\ HooksIdle /\ DomainsIdle
  /\ LocksIdle /\ RetriesIdle
  /\ DelaysIdle /\ ConnectsIdle /\ ProbesIdle /\ ReconcilesIdle

SpecDelay == InitDelay /\ [][NextDelay]_vars

\* ----- the reconcilers on their own -----
\* connector.Connect, lines 77-125, which the managed reconciler calls at the
\* start of every reconciliation: the ProviderConfig of the resource is read
\* and a Client is made from it.
Connect(t) ==
  /\ recon[t].pc = "idle"
  /\ Len(instances) < ConnectBound
  /\ \E p \in ProviderConfigs :
       /\ instances' = Append(instances, NewClient(p, config.burst))
       /\ recon' = [recon EXCEPT ![t] = [pc |-> "connected", config |-> p,
                                         client |-> Len(instances) + 1]]
  /\ UNCHANGED seen
  /\ UNCHANGED <<now, pipeline, limiterVars, logVars, dnsVars, besideConnects>>

\* A command of Observe, Create, Update or Delete through external.client:
\* makeRequest takes a token of the Client's limiter, then the Client's
\* breaker fails fast or records how the command ended.
Command(t) ==
  /\ recon[t].pc = "connected"
  /\ LET i == recon[t].client
         c == instances[i]
         p == recon[t].config
     IN /\ c.tokens >= 1
        /\ \E failed \in BOOLEAN :
             /\ instances' =
                  [instances EXCEPT ![i] =
                     [c EXCEPT !.tokens = @ - 1,
                               !.cb = IF c.cb.state = CircuitOpen THEN @
                                      ELSE RecordResult(@, failed, now, config.maxFailures)]]
             /\ seen' = [seen EXCEPT ![p] =
                           [failures |-> IF failed THEN @.failures + 1 ELSE 0,
                            taken |-> @.taken + 1]]
  /\ UNCHANGED recon
  /\ UNCHANGED <<now, pipeline, limiterVars, logVars, dnsVars, besideConnects>>

\* external.Disconnect: the reconciliation is over and its Client is dropped.
Disconnect(t) ==
  /\ recon[t].pc = "connected"
  /\ recon' = [recon EXCEPT ![t] = NoRecon]
  /\ UNCHANGED <<instances, seen>>
  /\ UNCHANGED <<now, pipeline, limiterVars, logVars, dnsVars, besideConnects>>

NextConnect ==
  \/ \E t \in Threads : Connect(t)
  \/ \E t \in Threads : Command(t)
  \/ \E t \in Threads : Disconnect(t)

InitConnect ==
  /\ InitCommon /\ callers = {} /\ server = {}
  /\ LimiterIdle /\ LogIdle /\ DnsIdle /\ WritersIdle /\ HooksIdle /\ DomainsIdle
  /\ LocksIdle /\ RetriesIdle /\ DelaysIdle /\ ConnectsIdle /\ ProbesIdle /\ ReconcilesIdle

SpecConnect == InitConnect /\ [][NextConnect]_vars

\* ----- DNSRecordExists on its own -----
\* the host lists a domain may have
HostLists ==
  UNION {[1..n -> {Host(0, nm, ty, "192.0.2.1", DefaultTTL, 0) : nm \in HostNames, ty \in RecordTypes}] :
           n \in 0..DnsBound}

\* DNSRecordExists is called and returns, its getHosts command having ended
\* in one of the ways it can.
ExistsCall ==
  /\ probe.pc = "idle"
  /\ \E name \in HostNames, type \in RecordTypes,
        fetch \in {Fetched(h) : h \in HostLists} \cup {FetchFailed(e) : e \in FetchErrors} :
       LET r == DNSRecordExists(fetch, name, type)
       IN probe' = [pc |-> "returned", name |-> name, type |-> type, fetch |-> fetch,
                    exists |-> r.exists, err |-> r.err]
  /\ UNCHANGED <<now, pipeline, limiterVars, logVars, dnsVars, besideProbes>>

\* The caller has used the answer.
ExistsDone ==
  /\ probe.pc = "returned"
  /\ probe' = NoProbe
  /\ UNCHANGED <<now, pipeline, limiterVars, logVars, dnsVars, besideProbes>>

NextProbe ==
  \/ ExistsCall
  \/ ExistsDone

InitProbe ==
  /\ InitCommon /\ config.maxFailures = 1 /\ callers = {} /\ server = {}
  /\ LimiterIdle /\ LogIdle /\ DnsIdle /\ LaterIdle

SpecProbe == InitProbe /\ [][NextProbe]_vars

\* ----- the reconciliation of a DNSRecord, the only writer of its domain -----
\* the records the domain has before the resource is made
EarlierHosts ==
  {<<>>} \cup {<<Host(1, "@", ty, a, DefaultTTL, IF ty = "MX" THEN DefaultMXPref ELSE 0)>> :
                 ty \in ManagedTypes, a \in Addresses}

\* A DNSRecord resource is made.
ReconcileStart ==
  /\ mr.pc = "idle"
  /\ \E fp \in ForProviders, hosts \in EarlierHosts :
       mr' = [NoReconcile EXCEPT !.pc = "observe", !.forProvider = fp, !.hosts = hosts]
  /\ UNCHANGED <<now, pipeline, limiterVars, logVars, dnsVars, besideReconciles>>

\* external.Observe
ReconcileObserve ==
  /\ mr.pc = "observe"
  /\ mr' = [mr EXCEPT !.pc = "observed", !.obs = Observe(mr.hosts, mr.forProvider)]
  /\ UNCHANGED <<now, pipeline, limiterVars, logVars, dnsVars, besideReconciles>>

\* external.Create with CreateDNSRecord, which succeed: the reconciler calls
\* it when the resource does not exist, and the provider stores the hosts
\* that setHosts sends.
ReconcileCreate ==
  /\ mr.pc = "observed"
  /\ ~mr.obs.ResourceExists
  /\ mr' = [mr EXCEPT !.pc = "observe", !.last = "create",
                      !.hosts = StoreHosts(ListParams(
                                  NewHosts("create", mr.hosts, ManagedRecord(0, mr.forProvider))))]
  /\ UNCHANGED <<now, pipeline, limiterVars, logVars, dnsVars, besideReconciles>>

\* external.Update with GetDNSRecord and UpdateDNSRecord, which succeed: the
\* reconciler calls it when the resource exists and is not up to date.
ReconcileUpdate ==
  /\ mr.pc = "observed"
  /\ mr.obs.ResourceExists /\ ~mr.obs.ResourceUpToDate
  /\ LET existingRecord == GetDNSRecord(Fetched(mr.hosts), mr.forProvider.Name,
                                        mr.forProvider.Type).record
         record == ManagedRecord(existingRecord.HostID, mr.forProvider)
     IN mr' = [mr EXCEPT !.pc = "observe", !.last = "update",
                         !.hosts = StoreHosts(ListParams(NewHosts("update", mr.hosts, record)))]
  /\ UNCHANGED <<now, pipeline, limiterVars, logVars, dnsVars, besideReconciles>>

\* The resource is up to date: the reconciler calls nothing, and the
\* resource is left.
ReconcileSettled ==
  /\ mr.pc = "observed"
  /\ mr.obs.ResourceExists /\ mr.obs.ResourceUpToDate
  /\ mr' = NoReconcile
  /\ UNCHANGED <<now, pipeline, limiterVars, logVars, dnsVars, besideReconciles>>

NextReconcile ==
  \/ ReconcileStart
  \/ ReconcileObserve
  \/ ReconcileCreate
  \/ ReconcileUpdate
  \/ ReconcileSettled

InitReconcile ==
  /\ InitCommon /\ config.maxFailures = 1 /\ callers = {} /\ server = {}
  /\ LimiterIdle /\ LogIdle /\ DnsIdle /\ LaterIdle

SpecReconcile == InitReconcile /\ [][NextReconcile]_vars

\* ----- properties -----
Quiet == \A t \in callers : pc[t] \notin InExecute
Reported(t) == {reports[t][i] : i \in DOMAIN reports[t]}
FailedFast(t) == pc[t] = "done" /\ result[t].kind = "circuit_open"
RateLimited(t) == pc[t] = "done" /\ result[t].wrap = "rate limit exceeded"
\* HTTP 200 with an unparsable body or an ERROR envelope whose first number is fatal
BadBody(r) ==
  /\ r.status = StatusOK
  /\ r.body = "malformed" \/ (r.body = "error" /\ r.code \notin TransientNumbers)

\* C1: with calls made one at a time from a Closed breaker with no failures,
\* the breaker is still Closed after fewer than maxFailures consecutive
\* failing calls and is Open once maxFailures of them have been recorded.
C1_OpensAtMaxFailures ==
  /\ streak < config.maxFailures => cb.state = CircuitClosed
  /\ (streak >= config.maxFailures /\ Quiet) => cb.state = CircuitOpen

C1_Witness ==
  /\ config.maxFailures = 2
  /\ streak = 2
  /\ Quiet
  /\ cb.state = CircuitOpen

\* C2: a call that finds the breaker Open with no more than resetTimeout
\* elapsed since lastFailTime fails fast: the wrapped function is not invoked
\* and the breaker is not written; every other call invokes the wrapped
\* function exactly once.
C2_FailFastOnlyWhenOpen ==
  \A t \in Threads :
    /\ pc[t] \in InWrapped => ~fresh[t] /\ invoked[t] = 1
    /\ FailedFast(t) =>
         fresh[t] /\ invoked[t] = 0 /\ httpCalls[t] = 0 /\ ~promoted[t] /\ reports[t] = <<>>
    /\ (pc[t] = "done" /\ ~FailedFast(t) /\ ~RateLimited(t)) => ~fresh[t] /\ invoked[t] = 1

C2_Witness ==
  \E t \in Threads : FailedFast(t) /\ cb.state = CircuitOpen /\ cb.failures > 0

\* C3: while the breaker is HalfOpen at most one call admitted as a probe is
\* inside the wrapped function.
C3_SingleProbe ==
  cb.state = CircuitHalfOpen =>
    Cardinality({t \in Threads : pc[t] \in InWrapped /\ snap[t].state = CircuitHalfOpen}) <= 1

\* C4: the outcome of a call never moves the breaker from Open directly to
\* Closed.
C4_NoOpenToClosedByCall ==
  \A t \in Threads : \A r \in Reported(t) :
    ~(r.before = CircuitOpen /\ r.state = CircuitClosed)

\* C5: with calls made one at a time, a probe that succeeds leaves the breaker
\* Closed with no failures, a probe that fails leaves it Open with
\* lastFailTime set to the time of that failure, and a call is let through
\* only when the breaker is Closed or resetTimeout has elapsed since
\* lastFailTime.
C5_HalfOpenProbe ==
  /\ \A t \in callers : \A r \in Reported(t) :
       r.before = CircuitHalfOpen =>
         IF r.ok THEN r.state = CircuitClosed /\ r.failures = 0
                 ELSE r.state = CircuitOpen /\ r.stamped
  /\ \A t \in callers :
       pc[t] \in InWrapped =>
         \/ cb.state = CircuitClosed
         \/ cb.state = CircuitHalfOpen /\ now - cb.lastFailTime > config.resetTimeout

C5_Witness ==
  \E t \in callers :
    /\ pc[t] = "done"
    /\ \E r \in Reported(t) : r.before = CircuitHalfOpen /\ ~r.ok
    /\ cb.state = CircuitOpen
    /\ cb.lastFailTime = now

\* C6: nothing is reported to the breaker while the retry loop runs, a command
\* that entered the breaker reports exactly once, and a command that ends in
\* success (after two failed attempts or any other number) leaves the breaker
\* Closed with no failures.
C6_RetriesHiddenFromBreaker ==
  \A t \in Threads :
    /\ pc[t] \in InWrapped => reports[t] = <<>>
    /\ (pc[t] = "done" /\ invoked[t] = 1) => Len(reports[t]) = 1
    /\ \A r \in Reported(t) : r.ok => r.failures = 0 /\ r.state = CircuitClosed

C6_Witness ==
  \E t \in Threads :
    /\ pc[t] = "done"
    /\ httpCalls[t] = 3
    /\ sleeps[t] = 2
    /\ Len(reports[t]) = 1
    /\ reports[t][1].ok

\* C7: every HTTP exchange of a command is preceded by its own limiter
\* acquisition, so a command takes as many tokens as it performs exchanges.
C7_TokenPerAttempt ==
  \A t \in Threads :
    /\ httpCalls[t] <= tokensTaken[t]
    /\ (pc[t] = "done" /\ httpCalls[t] > 0) => tokensTaken[t] = httpCalls[t]

\* C8: when every attempt is answered 429 and the context is not cancelled,
\* the number of exchanges equals the limit MaxRetries and the error reports
\* that number.
C8_AttemptsEqualLimit ==
  \A t \in Threads :
    (pc[t] = "done" /\ httpCalls[t] > 0 /\ only429[t] /\ ~ctxDone[t]) =>
      /\ httpCalls[t] = config.MaxRetries
      /\ result[t].n = httpCalls[t]

\* C9: a response of HTTP 200 with an unparsable body or a fatal ERROR
\* envelope ends the command: it is returned as an error, no attempt and no
\* backoff delay follows it, and when it answers the first attempt the
\* command has performed exactly one exchange.
C9_NoRetryOnBadBody ==
  \A t \in Threads :
    BadBody(resp[t]) =>
      /\ pc[t] = "done"
      /\ result[t] # Nil
      /\ result[t].kind \in {"xml", "nc"}
      /\ httpCalls[t] = sleeps[t] + 1

C9_Witness ==
  \E t \in Threads :
    /\ pc[t] = "done"
    /\ BadBody(resp[t])
    /\ resp[t].code = 2030166
    /\ httpCalls[t] = 1
    /\ sleeps[t] = 0

\* C10: a command answered with an ERROR envelope whose first number is in
\* the transient set goes back to the caller with that error only after all
\* attempts have been used.
C10_TransientEnvelopeRetried ==
  \A t \in Threads :
    (pc[t] = "done" /\ result[t].kind = "nc" /\ result[t].code \in TransientNumbers
       /\ ~ctxDone[t]) =>
      httpCalls[t] = config.MaxRetries + 1

\* C11: a command that ends with the error of an HTTP status of 500 or above,
\* or of 429, while its context is live has been retried until no attempt
\* remained; the body of such a response is never parsed.
C11_ServerErrorsRetried ==
  \A t \in Threads :
    (pc[t] = "done" /\ result[t].kind = "http" /\ ~ctxDone[t]
       /\ (result[t].code >= 500 \/ result[t].code = StatusTooManyRequests)) =>
      /\ httpCalls[t] = config.MaxRetries + 1
      /\ resp[t] = NoResp

\* C12: a command that ends with a network-level failure, a timeout or a
\* connection error that is no timeout, while its context is live has been
\* retried until no attempt remained.
C12_NetworkErrorsRetried ==
  \A t \in Threads :
    (pc[t] = "done" /\ result[t].kind \in {"url_timeout", "url_refused"} /\ ~ctxDone[t]) =>
      httpCalls[t] = config.MaxRetries + 1

\* C13: a caller whose context is cancelled while it is blocked in the
\* limiter's Wait leaves makeRequest with the rate-limit error: it has made
\* no HTTP exchange, Execute was not entered, and the breaker's state,
\* failures and lastFailTime are what they were.
C13_CancelledWaitSkipsBreaker ==
  [][\A t \in Threads :
       (pc[t] = "wait" /\ ctxDone[t] /\ pc'[t] # "wait") =>
         /\ pc'[t] = "done"
         /\ result'[t] = Wrapf(MkErr("ctx_canceled", 0), "rate limit exceeded", 0)
         /\ cb' = cb
         /\ tokens' = tokens
         /\ httpCalls'[t] = 0 /\ invoked'[t] = 0 /\ reports'[t] = <<>> /\ ~promoted'[t]]_vars

C13_Witness ==
  \E t \in Threads :
    /\ RateLimited(t)
    /\ tokens = 0 /\ now = 0
    /\ httpCalls[t] = 0 /\ invoked[t] = 0 /\ reports[t] = <<>>
    /\ cb.failures > 0

\* C14: a caller whose context is cancelled while WithRetry sleeps between two
\* attempts gets the context's error, which is not the error of the attempt
\* before the sleep, and makes no further attempt.
C14_CancelledSleepReturnsCtxErr ==
  [][\A t \in Threads :
       (pc[t] = "sleep" /\ ctxDone[t] /\ pc'[t] # "sleep") =>
         /\ pc'[t] = "done"
         /\ result'[t] = MkErr("ctx_canceled", 0)
         /\ result'[t] # lastErr[t]
         /\ httpCalls'[t] = httpCalls[t]]_vars

C14_Witness ==
  \E t \in Threads :
    /\ pc[t] = "done"
    /\ result[t] = MkErr("ctx_canceled", 0)
    /\ sleeps[t] = 2 /\ httpCalls[t] = 2
    /\ ctxDone[t]

\* How the current command of t left makeRequest, read from its history.
Exhausted(t) ==
  /\ invoked[t] = 1
  /\ httpCalls[t] = config.MaxRetries + 1 /\ sleeps[t] = config.MaxRetries
  /\ isRetryableError(doHTTPRequest(lastOut[t]).err)
NonRetryable(t) ==
  /\ invoked[t] = 1
  /\ httpCalls[t] = sleeps[t] + 1
  /\ doHTTPRequest(lastOut[t]).err # Nil
  /\ ~isRetryableError(doHTTPRequest(lastOut[t]).err)
CancelledAsleep(t) == invoked[t] = 1 /\ httpCalls[t] = sleeps[t]
BreakerOpen(t) == invoked[t] = 0 /\ tokensTaken[t] = 1
WaitFailed(t) == invoked[t] = 0 /\ tokensTaken[t] = 0
Succeeded(t) == invoked[t] = 1 /\ doHTTPRequest(lastOut[t]).err = Nil
\* the error a failing makeRequest must hand back on each of its paths
PathError(t) ==
  CASE Exhausted(t) ->
         Wrapf(doHTTPRequest(lastOut[t]).err, "failed after retries", config.MaxRetries)
    [] NonRetryable(t) -> Wrapf(doHTTPRequest(lastOut[t]).err, "non-retryable", 0)
    [] CancelledAsleep(t) -> MkErr("ctx_canceled", 0)
    [] BreakerOpen(t) -> MkErr("circuit_open", 0)
    [] WaitFailed(t) -> Wrapf(MkErr("ctx_canceled", 0), "rate limit exceeded", 0)

RECURSIVE AdmittedIn(_)
AdmittedIn(k) == IF k = 0 THEN 0 ELSE admits[k] + AdmittedIn(k - 1)

\* C16 as claimed: the requests admitted within a window shorter than
\* burst / limit ticks, which holds the k clock readings of a span of k - 1
\* ticks, are never more than burst.
C16_AtMostCapacityPerWindow ==
  \A k \in 1..LimBurstBound :
    (k - 1) * lim.limit < lim.burst => AdmittedIn(k) <= lim.burst

\* C16: with any concurrent callers of Wait and Allow, from a full bucket or
\* any other, the requests admitted within a window that spans w ticks are
\* never more than burst + limit * w: the bucket's content at the start of
\* the window and what is refilled during it.
C16_AtMostCapacityPlusRefill ==
  \A k \in 1..LimBurstBound :
    AdmittedIn(k) <= lim.burst + lim.limit * (k - 1)

C16_Witness ==
  /\ lim.burst = 2
  /\ admits[2] = 2 /\ admits[1] = 1
  /\ \E t \in Threads : lret[t] = "nil"

\* C17: a call of Wait returns an error only when its context is cancelled or
\* past its deadline at that moment; otherwise it returns nil, at once or
\* after blocking, whatever limit and burst NewRateLimiter and UpdateLimit
\* have set.
C17_WaitFailsOnlyOnDoneContext ==
  [][\A t \in Threads :
       (lpc[t] \in {"wait", "reserve", "parked"} /\ lpc'[t] = "idle") =>
         IF LimCtxDone(t) THEN lret'[t] \in {"ctx_err", "nil"} ELSE lret'[t] = "nil"]_vars

\* C18: the bucket holds no less than zero tokens and no more than burst in
\* every state that callers of Wait, Allow and UpdateLimit reach.
C18_TokensWithinCapacity == 0 <= lim.tokens /\ lim.tokens <= lim.burst

\* the record mentions the key
Mentions(rec, key) == \E i \in DOMAIN rec.url : rec.url[i][2] = key

\* C19: the API key is in no record a client logs, and two clients that
\* differ in their API key alone have logged the same records, whatever the
\* logger's verbosity.
C19_KeyNeverLogged ==
  /\ \A c \in Threads : \A i \in DOMAIN logs[c] : ~Mentions(logs[c][i], apiKey[c])
  /\ logs[1] = logs[2]

\* name, type and address of the records of a list, in its order
Core(recs) == [i \in DOMAIN recs |-> <<recs[i].Name, recs[i].Type, recs[i].Address>>]
NotDeleted(r) == ~DeleteMatches(r, dop.record)

\* C20: with one writer per domain, an operation that has returned has made
\* one getHosts request and at most one setHosts request, which carried the
\* whole list; after success the provider holds the records that were read
\* with the new record appended (create), one matching record replaced
\* (update) or the matching records removed (delete), and every other record
\* has its name, type and address and its place in the order; an operation
\* that found no record to change has sent nothing.
C20_ReadModifyWriteFrame ==
  dpc = "done" =>
    /\ dgets = 1 /\ Len(dsent) <= 1
    /\ dres = "DNS record not found" => dsent = <<>> /\ remote = dread
    /\ dres = "ok" =>
         /\ Len(dsent) = 1
         /\ Len(dsent[1]) = Len(remote)
         /\ CASE dop.kind = "create" ->
                   Core(remote) = Core(dread) \o Core(<<dop.record>>)
              [] dop.kind = "update" ->
                   /\ Len(remote) = Len(dread)
                   /\ \E i \in DOMAIN dread :
                        /\ UpdateMatches(dread[i], dop.record)
                        /\ Core(remote)[i] = Core(<<dop.record>>)[1]
                        /\ \A j \in DOMAIN dread \ {i} : Core(remote)[j] = Core(dread)[j]
              [] dop.kind = "delete" ->
                   /\ Len(remote) < Len(dread)
                   /\ Core(remote) = Core(SelectSeq(dread, NotDeleted))

C20_Witness ==
  /\ dpc = "done" /\ dres = "ok"
  /\ dop.kind = "update"
  /\ Len(dread) = 2
  /\ UpdateMatches(dread[1], dop.record) /\ UpdateMatches(dread[2], dop.record)
  /\ Core(remote)[2] = Core(dread)[2]
  /\ Core(remote)[1] # Core(dread)[1]

\* C21: the provider's records are those of the request it served last, which
\* its writer made from the list it had read itself: what another writer
\* stored between that read and that request is not in them, unless the list
\* read held it.  Two writers that both return success can so leave the
\* effect of one of them only.
C21_LastWriterWins ==
  (wlast # 0 /\ wpc[wlast] = "done") =>
    /\ wres[wlast] = "ok"
    /\ remote = StoreHosts(ListParams(NewHosts(wop[wlast].kind, wread[wlast],
                                               wop[wlast].record)))

\* both writers created a record and returned success; one of the two records
\* is not among the provider's
C21_Witness ==
  \E w, v \in Threads :
    /\ w # v
    /\ wpc[w] = "done" /\ wpc[v] = "done"
    /\ wres[w] = "ok" /\ wres[v] = "ok"
    /\ wop[w].kind = "create" /\ wop[v].kind = "create"
    /\ wlast = v
    /\ \A i \in DOMAIN remote : Core(remote)[i] # Core(<<wop[w].record>>)[1]
    /\ \E i \in DOMAIN remote : Core(remote)[i] = Core(<<wop[v].record>>)[1]

\* the header of the request of h is the digest of its body under the
\* server's secret, bare or behind one "sha256="
SignedBySecret(h) ==
  /\ hreq[h].signature.hex = HmacHex(hsecret, hreq[h].body)
  /\ hreq[h].signature.prefixes \in {0, 1}

\* C22: with a secret configured, a request whose signature header is missing
\* or is not the HMAC-SHA256 of its body under the secret, with or without
\* the prefix, never reaches a processor; once its body has been read it is
\* answered 401 and counted in requests_errors.  With no secret no request is
\* answered 401.
C22_UnsignedNeverProcessed ==
  \A h \in Threads :
    /\ (hsecret # "" /\ hpc[h] # "idle" /\ ~SignedBySecret(h)) =>
         /\ hpc[h] # "process"
         /\ hran[h] = <<>>
         /\ (hpc[h] = "done" /\ hreq[h].readable) =>
              hstatus[h] = 401 /\ hcount[h] = "requestsErrors"
    /\ hsecret = "" => hstatus[h] # 401

C22_Witness ==
  \E h \in Threads :
    /\ hsecret # ""
    /\ hreq[h].body.type \in DomainEvents
    /\ sprocessors[hreq[h].body.type] = "domain"
    /\ hreq[h].body.json /\ hreq[h].body.domain
    /\ hreq[h].signature = Signature(1, HmacHex("guess", hreq[h].body))
    /\ hpc[h] = "done"
    /\ hstatus[h] = 401
    /\ metrics.requestsErrors = 1 /\ metrics.eventsProcessed = 0

\* C24: after RegisterDefaultProcessors, a request that was accepted and
\* named one of the fourteen event types has been processed by the logging
\* processor as well as by the processor of its type.
C24_LoggingProcessorRuns ==
  \A h \in Threads :
    (hpc[h] = "done" /\ hstatus[h] = 200 /\ hreq[h].body.type \in EventTypes
       /\ \A ty \in EventTypes : mprocessors[ty] # <<>>) =>
      \E i \in DOMAIN hran[h] : hran[h][i] = "logging"

\* the mutating command came back with a response whose envelope is OK and
\* whose Registered or Renew attribute is true
MutationSucceeded ==
  omut.err = Nil /\ omut.resp.status = StatusOK /\ omut.resp.body = "ok" /\ omut.flag

\* C23: CreateDomain and RenewDomain hand the mutating command to makeRequest
\* first and domains.getInfo only after that command reported success; an
\* operation that succeeded has made exactly these two calls in this order
\* and returns the domain; when the mutating command fails, comes back with
\* an ERROR envelope or reports Registered or Renew false, no getInfo call is
\* made and the operation returns a nil domain and an error.
C23_MutateThenGetInfo ==
  /\ opc = "getInfo" => ocalls = <<MutatingCommand(oop.kind)>> /\ MutationSucceeded
  /\ opc = "done" =>
       /\ ocalls \in {<<MutatingCommand(oop.kind)>>,
                      <<MutatingCommand(oop.kind), "namecheap.domains.getInfo">>}
       /\ Len(ocalls) = 2 => MutationSucceeded
       /\ ores.err = "nil" => Len(ocalls) = 2 /\ ores.domain = oop.domainName
       /\ ~MutationSucceeded =>
            Len(ocalls) = 1 /\ ores.domain = "nil" /\ ores.err # "nil"
       /\ ores.err # "nil" => ores.domain = "nil"

C23_Witness ==
  /\ opc = "done"
  /\ oop.kind = "renew"
  /\ omut.err = Nil /\ omut.resp.body = "ok" /\ ~omut.flag
  /\ ocalls = <<"namecheap.domains.renew">>
  /\ ores = [domain |-> "nil", err |-> "domain renewal failed"]

\* C25: a call that was let through and returns success while the breaker is
\* Closed leaves it Closed with failures = 0; with calls made one at a time
\* failures is the number of failed calls since the last success or Reset, so
\* the breaker is Open only after maxFailures failures with no success in
\* between.
C25_SuccessResetsFailures ==
  /\ \A t \in callers : \A r \in Reported(t) :
       (r.ok /\ r.before = CircuitClosed) => r.failures = 0 /\ r.state = CircuitClosed
  /\ cb.failures = streak
  /\ cb.state = CircuitOpen => streak >= config.maxFailures

\* a success recorded while Closed with one failure, that of the tick before
C25_Witness ==
  \E t \in callers :
    /\ config.maxFailures = 2
    /\ now = 1 /\ cb.lastFailTime = 0
    /\ pc[t] = "done"
    /\ Len(reports[t]) = 1 /\ reports[t][1].ok /\ reports[t][1].before = CircuitClosed
    /\ cb.failures = 0 /\ cb.state = CircuitClosed

\* C26: the breaker goes from Open to HalfOpen only in the step of a call to
\* Execute that finds now - lastFailTime > resetTimeout; the passing of time
\* leaves an Open breaker as it is; and a call that looks at an Open breaker
\* when no more than resetTimeout has elapsed, exactly resetTimeout included,
\* fails fast and leaves the breaker alone.
C26_LazyStrictPromotion ==
  [][/\ (cb.state = CircuitOpen /\ cb'.state = CircuitHalfOpen) =>
          \E t \in Threads :
            /\ pc[t] = "promote" /\ pc'[t] # "promote"
            /\ now - cb.lastFailTime > config.resetTimeout
     /\ now' # now => cb' = cb
     /\ \A t \in Threads :
          (pc[t] = "check" /\ pc'[t] # "check" /\ snap[t].state = CircuitOpen
             /\ now - snap[t].lastFailTime <= config.resetTimeout) =>
            /\ pc'[t] = "done"
            /\ result'[t] = MkErr("circuit_open", 0)
            /\ invoked'[t] = 0
            /\ cb' = cb]_vars

\* a call that took its token at this clock reading has failed fast with
\* exactly resetTimeout elapsed
C26_Witness ==
  \E t \in Threads :
    /\ FailedFast(t)
    /\ cb.state = CircuitOpen
    /\ now - cb.lastFailTime = config.resetTimeout
    /\ tokensTaken[t] = 1 /\ tokens = 0

\* C27: a goroutine that is inside the function Execute wraps, or blocked in
\* the limiter's Wait, holds neither the mutex of the CircuitBreaker nor the
\* mutex of the RateLimiter; each mutex is held only between its Lock or
\* RLock and the Unlock or RUnlock that follows, by one writer or by readers.
C27_NoLockAcrossBlocking ==
  /\ \A t \in Threads :
       /\ kpc[t] \in {"Execute:567", "Wait:472"} => ~Holds(cbmu, t) /\ ~Holds(rlmu, t)
       /\ Holds(cbmu, t) <=> kpc[t] \in {"Execute:545", "Execute:553", "Execute:573", "Reset:608"}
       /\ Holds(rlmu, t) <=> kpc[t] \in {"Wait:469", "UpdateLimit:486"}
  /\ cbmu.writer # 0 => cbmu.readers = {}
  /\ rlmu.writer # 0 => rlmu.readers = {}

\* one goroutine is in the wrapped function while the other, blocked in Wait
\* on an empty bucket, holds no lock either: a third can take both mutexes
C27_Witness ==
  \E t, u \in Threads :
    /\ kpc[t] = "Execute:567"
    /\ kpc[u] = "Wait:472" /\ tokens = 0
    /\ CanLock(cbmu) /\ CanLock(rlmu)

\* C28: every attempt runs under a deadline of its own, 30 seconds after the
\* attempt began and no later than the deadline of the caller's context, and
\* does not run past it; an attempt that ends at its own deadline while the
\* caller's context is live ends alone: its error is retried, after the delay
\* when attempts remain and as the failure after retries when none does; and
\* the attempt that follows a delay gets a deadline counted from its own start.
C28_DeadlinePerAttempt ==
  [][/\ rpc' = "running" =>
          /\ rdeadline' = Min(rstart' + AttemptTicks, rctx'.deadline)
          /\ rstart' <= now' /\ now' <= rdeadline'
     /\ (rexpired' = rexpired + 1 /\ ~CtxDone(rctx, now)) =>
          /\ rpc = "running" /\ now = rdeadline
          /\ isRetryableError(MkErr("url_timeout", 0))
          /\ IF rattempt < config.MaxRetries
             THEN rpc' = "sleep" /\ rlast' = MkErr("url_timeout", 0) /\ rres' = Nil
             ELSE /\ rpc' = "done"
                  /\ rres' = Wrapf(MkErr("url_timeout", 0), "failed after retries",
                                   config.MaxRetries)
          /\ rctx' = rctx
     /\ (rpc = "sleep" /\ rpc' = "running") =>
          /\ rattempt' = rattempt + 1
          /\ rstart' = now
          /\ rdeadline' = Min(now + AttemptTicks, rctx.deadline)]_vars

\* the second attempt, begun after the first ended at its deadline, is under
\* way past the first one's deadline and within its own
C28_Witness ==
  /\ rpc = "running"
  /\ rattempt = 1 /\ rexpired = 1
  /\ ~CtxDone(rctx, now)
  /\ rstart = AttemptTicks /\ now = rstart + 1
  /\ rdeadline = rstart + AttemptTicks

\* C29: the delay calculateDelay returns is at least 0 and at most MaxDelay,
\* for every attempt index, every RetryConfig and every draw.
C29_DelayWithinBounds ==
  cdpc = "returned" => 0 <= cddelay /\ cddelay <= cdconfig.MaxDelay

\* C30: with maxFailures at least 1, whenever the breaker is Closed its
\* failure counter is below maxFailures, whatever the interleaving of the
\* callers of Execute and of Reset.
C30_ClosedBelowThreshold ==
  (config.maxFailures >= 1 /\ cb.state = CircuitClosed) => cb.failures < config.maxFailures

\* a call that moved the breaker from Open to HalfOpen has recorded its
\* failure after a Reset: Closed, one failure short of Open
C30_Witness ==
  \E t \in callers :
    /\ config.maxFailures = 2
    /\ promoted[t]
    /\ Len(reports[t]) >= 1 /\ ~reports[t][Len(reports[t])].ok
    /\ cb.state = CircuitClosed /\ cb.failures = 1

\* C31: the failure counter goes up by one exactly when the function Execute
\* wrapped returns an error: the error of the last exchange (transport, 5xx or
\* 429) or the cancellation met in the backoff wait.  An exchange answered
\* with another status is recorded as a success, which leaves the counter at 0
\* and the breaker Closed, whatever parseResponse makes of the response.
C31_CountsWrappedErrorsOnly ==
  [][LET Recorded(t) == Len(reports'[t]) = Len(reports[t]) + 1
         WrappedErr(t) == IF pc[t] = "sleep" THEN MkErr("ctx_canceled", 0)
                          ELSE doHTTPRequest(lastOut'[t]).err
     IN /\ (cb'.failures = cb.failures + 1) <=>
             (\E t \in callers : Recorded(t) /\ WrappedErr(t) # Nil)
        /\ \A t \in callers :
             /\ (Recorded(t) /\ pc[t] = "attempt") =>
                  (WrappedErr(t) = Nil <=>
                     /\ lastOut'[t].net = "ok"
                     /\ lastOut'[t].status < 500
                     /\ lastOut'[t].status # StatusTooManyRequests)
             /\ (Recorded(t) /\ WrappedErr(t) = Nil) =>
                  /\ reports'[t][Len(reports'[t])].ok
                  /\ cb'.failures = 0 /\ cb'.state = CircuitClosed
                  /\ result'[t] = parseResponse(resp'[t])]_vars

\* a command answered 404, or 200 with an ERROR or unparsable envelope, has
\* returned its error and was recorded as the success that cleared a failure
C31_Witness ==
  \E t \in callers :
    /\ pc[t] = "done"
    /\ lastOut[t].net = "ok" /\ (lastOut[t].status = 404 \/ lastOut[t].body \in {"error", "malformed"})
    /\ result[t] # Nil
    /\ Len(reports[t]) = 1 /\ reports[t][1].ok
    /\ cb.failures = 0 /\ cb.state = CircuitClosed /\ cb.lastFailTime # ZeroTime

\* C32: when the domain operation reads the body of the response of a
\* successful attempt, the context of that attempt has not been cancelled.
C32_BodyReadUnderLiveContext ==
  (rpc = "done" /\ rbody = "unread") => rlive

\* C33: the commands of the reconciliations of one ProviderConfig go through
\* one Client: no two Clients are made for the same ProviderConfig, and the
\* breaker and the limiter of the Client a reconciliation uses have counted
\* the failures and the tokens of every command made for that ProviderConfig.
C33_OneClientPerProviderConfig ==
  /\ \A i, j \in DOMAIN instances : instances[i].config = instances[j].config => i = j
  /\ \A t \in Threads :
       recon[t].pc = "connected" =>
         LET c == instances[recon[t].client]
             s == seen[recon[t].config]
         IN /\ c.cb.state # CircuitOpen => c.cb.failures = s.failures
            /\ c.tokens = config.burst - s.taken

\* C35: an update or a delete whose record matches none of the hosts that
\* were fetched returns the not-found error, sends no setHosts request and
\* leaves the provider's hosts as they were; a delete that succeeded has
\* removed every host with the name and the type given and kept every other
\* host, in the order they had.
C35_NotFoundSendsNothing ==
  dpc = "done" =>
    LET rec == dop.record
        SameNameType(r) == r.Name = rec.Name /\ r.Type = rec.Type
        Matches(r) == IF dop.kind = "update" THEN r.HostID = rec.HostID \/ SameNameType(r)
                      ELSE SameNameType(r)
        Kept(r) == ~SameNameType(r)
    IN /\ (/\ dop.kind \in {"update", "delete"}
           /\ dres # "failed to get existing DNS records"
           /\ \A i \in DOMAIN dread : ~Matches(dread[i])) =>
             /\ dres = "DNS record not found"
             /\ dsent = <<>>
             /\ remote = dread
       /\ (dop.kind = "delete" /\ dres = "ok") =>
             /\ \E i \in DOMAIN dread : SameNameType(dread[i])
             /\ Core(remote) = Core(SelectSeq(dread, Kept))

\* a delete has removed one of two hosts and kept the other
C35_Witness ==
  /\ dpc = "done" /\ dop.kind = "delete" /\ dres = "ok"
  /\ Len(dread) = 2 /\ Len(remote) = 1
  /\ dread[1].Name = dop.record.Name /\ dread[1].Type = dop.record.Type
  /\ dread[2].Name = dop.record.Name /\ dread[2].Type # dop.record.Type

\* C34: DNSRecordExists answers (false, nil) only when the hosts of the domain
\* were fetched and none of them has the name and the type; when the fetch
\* failed it returns the error.
C34_AbsentOnlyWhenFetched ==
  probe.pc = "returned" =>
    /\ (~probe.exists /\ probe.err = NoError) =>
         /\ probe.fetch.err = NoError
         /\ \A i \in DOMAIN probe.fetch.hosts :
              ~(probe.fetch.hosts[i].Name = probe.name /\ probe.fetch.hosts[i].Type = probe.type)
    /\ probe.fetch.err # NoError => probe.err # NoError

\* C36: for a DNSRecord whose spec sets priority, the Observe that follows a
\* successful Create or Update reports ResourceExists and ResourceUpToDate.
C36_UpToDateAfterWrite ==
  (mr.pc = "observed" /\ mr.last \in {"create", "update"} /\ mr.forProvider.Priority.set) =>
    mr.obs.ResourceExists /\ mr.obs.ResourceUpToDate

\* C37: the three outcome counters never add up to more than requests_total;
\* a request raises at most one of them, once, as it is answered; and the
\* requests that were answered and are in none of them are exactly the
\* accepted requests whose event type has no processor, so that after the
\* requests are handled the sum equals requests_total exactly when there was
\* no such request.
OutcomeSum(m) == m.requestsErrors + m.processingErrors + m.eventsProcessed
InFlight(at) == Cardinality({h \in Threads : at[h] \in {"read", "process"}})
Uncounted(m, at) == m.requestsTotal - OutcomeSum(m) - InFlight(at)
AcceptedUnregistered(h) ==
  /\ hreq[h].readable
  /\ verifySignature(hsecret, hreq[h].body, hreq[h].signature)
  /\ hreq[h].body.json
  /\ hreq[h].body.type \notin EventTypes \/ sprocessors[hreq[h].body.type] = "none"
C37_CountersAddUp ==
  /\ [](OutcomeSum(metrics) <= metrics.requestsTotal /\ Uncounted(metrics, hpc) >= 0)
  /\ [][/\ \A c \in {"requestsErrors", "processingErrors", "eventsProcessed"} :
             metrics'[c] # metrics[c] =>
               /\ OutcomeSum(metrics') = OutcomeSum(metrics) + 1
               /\ \E h \in Threads : hpc[h] \in {"read", "process"} /\ hpc'[h] = "done"
                                     /\ hcount[h] = "none" /\ hcount'[h] = c
          /\ Uncounted(metrics', hpc') - Uncounted(metrics, hpc) =
               IF \E h \in Threads : hpc[h] = "read" /\ hpc'[h] = "done" /\ AcceptedUnregistered(h)
               THEN 1 ELSE 0]_vars
\* two requests handled at the same time, one of them accepted without a
\* processor for its type and the other counted
C37_Witness ==
  /\ \A h \in Threads : hpc[h] = "done"
  /\ metrics.requestsTotal = 2
  /\ OutcomeSum(metrics) = 1
  /\ \E h \in Threads : hcount[h] = "none" /\ AcceptedUnregistered(h)

\* C38: every makeRequest call returns, provided its wait for the limiter is
\* not left for ever without a token and without cancellation; the call makes
\* at most MaxRetries + 1 HTTP exchanges and waits at most MaxRetries backoff
\* delays, and the delay it waits is at most MaxDelay for every RetryConfig
\* and draw.
C38_EveryCallReturns ==
  /\ [](\A t \in Threads :
          /\ httpCalls[t] <= config.MaxRetries + 1
          /\ sleeps[t] <= config.MaxRetries
          /\ pc[t] = "sleep" =>
               \A c \in RetryConfigs, u \in Draws : calculateDelay(c, attempt[t], u) <= c.MaxDelay)
  /\ \A t \in Threads :
       []<>(pc[t] = "wait" => ctxDone[t] \/ tokens >= 1) => (pc[t] # "idle" ~> pc[t] = "done")
\* a call that has returned after every exchange and every delay it may have
C38_Witness ==
  /\ pc[1] = "done"
  /\ config.MaxRetries >= 1
  /\ httpCalls[1] = config.MaxRetries + 1
  /\ sleeps[1] = config.MaxRetries

====
